---- MODULE Spec2Model ----
(***************************************************************************)
(* The inventory store and its undo/redo history (inventory_manager.py),   *)
(* the key-space helpers (utilities.py) and the handlers of app.py and     *)
(* import_manager.py that write through them.                              *)
(*                                                                         *)
(* A Python str is a sequence of one-character strings, so that slicing,   *)
(* upper(), lower(), strip(), split() and int() are computed, not assumed. *)
(* A cabinet name is only ever compared, never taken apart: it is a plain  *)
(* string.  A dict is a function whose DOMAIN is its key set.              *)
(***************************************************************************)
EXTENDS Integers, Sequences, FiniteSets, TLC

VARIABLES
    drawers,         \* the 'drawers' table: <<cabinet, row, column>> -> [name, qty]
    action_history,  \* InventoryManager.action_history
    redo_stack,      \* InventoryManager.redo_stack
    last,            \* the call that ended last and what it gave its caller
    job,             \* the batch handler in progress (bulk_update / import_txt)
    padcall,         \* a call of pad_inventory: the dict given and the dict returned
    threads,         \* the calls running side by side: where each is, and its locals
    obs              \* observer of a run of writes, undos and redos (no program state)

vars == <<drawers, action_history, redo_stack, last, job, padcall, threads, obs>>

(***************************************************************************)
(* str                                                                     *)
(***************************************************************************)
LowerLetters ==
    <<"a","b","c","d","e","f","g","h","i","j","k","l","m",
      "n","o","p","q","r","s","t","u","v","w","x","y","z">>

UpperLetters ==
    <<"A","B","C","D","E","F","G","H","I","J","K","L","M",
      "N","O","P","Q","R","S","T","U","V","W","X","Y","Z">>

DigitChars == <<"0","1","2","3","4","5","6","7","8","9">>

\* the characters in code point order, as far as the model uses them
CodeOrder ==
    <<" ", "(", ")", "+", ",", "-">> \o DigitChars \o <<":">> \o UpperLetters \o LowerLetters

IndexIn(seq, c) == CHOOSE i \in 1..Len(seq) : seq[i] = c

IsIn(seq, c) == \E i \in 1..Len(seq) : seq[i] = c

upper_char(c) == IF IsIn(LowerLetters, c) THEN UpperLetters[IndexIn(LowerLetters, c)] ELSE c

lower_char(c) == IF IsIn(UpperLetters, c) THEN LowerLetters[IndexIn(UpperLetters, c)] ELSE c

RECURSIVE upper(_)
upper(s) == IF s = <<>> THEN <<>> ELSE <<upper_char(Head(s))>> \o upper(Tail(s))

RECURSIVE lower(_)
lower(s) == IF s = <<>> THEN <<>> ELSE <<lower_char(Head(s))>> \o lower(Tail(s))

RECURSIVE lstrip(_)
lstrip(s) == IF s # <<>> /\ Head(s) = " " THEN lstrip(Tail(s)) ELSE s

RECURSIVE rstrip(_)
rstrip(s) == IF s # <<>> /\ s[Len(s)] = " " THEN rstrip(SubSeq(s, 1, Len(s) - 1)) ELSE s

strip(s) == rstrip(lstrip(s))

\* s.split(sep): the pieces between the occurrences of the character sep
RECURSIVE split(_, _)
split(s, sep) ==
    IF ~IsIn(s, sep) THEN <<s>>
    ELSE LET i == CHOOSE j \in 1..Len(s) : s[j] = sep /\ \A k \in 1..(j - 1) : s[k] # sep
         IN  <<SubSeq(s, 1, i - 1)>> \o split(SubSeq(s, i + 1, Len(s)), sep)

RECURSIVE strip_all(_)
strip_all(ps) == IF ps = <<>> THEN <<>> ELSE <<strip(Head(ps))>> \o strip_all(Tail(ps))

RECURSIVE digits_value(_)
digits_value(s) ==
    IF s = <<>> THEN 0
    ELSE 10 * digits_value(SubSeq(s, 1, Len(s) - 1)) + (IndexIn(DigitChars, s[Len(s)]) - 1)

all_digits(s) == s # <<>> /\ \A i \in 1..Len(s) : IsIn(DigitChars, s[i])

\* int(s): surrounding blanks and one sign are accepted; anything else is a ValueError
int(s) ==
    LET t == strip(s)
        signed == t # <<>> /\ Head(t) \in {"-", "+"}
        body == IF signed THEN Tail(t) ELSE t
    IN  IF all_digits(body)
        THEN [ok |-> TRUE, val |-> IF signed /\ Head(t) = "-" THEN 0 - digits_value(body)
                                   ELSE digits_value(body)]
        ELSE [ok |-> FALSE, val |-> 0]

char_lt(a, b) == IndexIn(CodeOrder, a) < IndexIn(CodeOrder, b)

\* s < t for str: by code point, a proper prefix first
RECURSIVE str_lt(_, _)
str_lt(s, t) ==
    IF t = <<>> THEN FALSE
    ELSE IF s = <<>> THEN TRUE
    ELSE IF Head(s) = Head(t) THEN str_lt(Tail(s), Tail(t))
    ELSE char_lt(Head(s), Head(t))

\* q in s
contains(s, q) ==
    \E i \in 0..(Len(s) - Len(q)) : SubSeq(s, i + 1, i + Len(q)) = q

\* s.find(c) and s.rfind(c) for a character c: 0-based, -1 when absent
find(s, c) ==
    IF IsIn(s, c)
    THEN (CHOOSE i \in 1..Len(s) : s[i] = c /\ \A k \in 1..(i - 1) : s[k] # c) - 1
    ELSE -1

rfind(s, c) ==
    IF IsIn(s, c)
    THEN (CHOOSE i \in 1..Len(s) : s[i] = c /\ \A k \in (i + 1)..Len(s) : s[k] # c) - 1
    ELSE -1

\* sep.join(ps)
RECURSIVE join(_, _)
join(ps, sep) ==
    IF ps = <<>> THEN <<>>
    ELSE IF Len(ps) = 1 THEN Head(ps)
    ELSE Head(ps) \o <<sep>> \o join(Tail(ps), sep)

\* str(n) for an int
RECURSIVE str_nat(_)
str_nat(n) ==
    IF n < 10 THEN <<DigitChars[n + 1]>>
    ELSE str_nat(n \div 10) \o <<DigitChars[(n % 10) + 1]>>

str_int(n) == IF n < 0 THEN <<"-">> \o str_nat(0 - n) ELSE str_nat(n)

(***************************************************************************)
(* utilities.py                                                            *)
(***************************************************************************)
EmptyDrawer == [name |-> <<>>, qty |-> 0]

SmallRows == <<"A", "B", "C", "D">>

LargeRows == <<"E", "F", "G">>

\* f"{row}{col}" for col in range(1, stop)
RECURSIVE row_keys(_, _, _)
row_keys(row, col, stop) ==
    IF col >= stop THEN <<>>
    ELSE <<(<<row, DigitChars[col + 1]>>)>> \o row_keys(row, col + 1, stop)

RECURSIVE rows_keys(_, _)
rows_keys(rows, stop) ==
    IF rows = <<>> THEN <<>>
    ELSE row_keys(Head(rows), 1, stop) \o rows_keys(Tail(rows), stop)

generate_all_drawer_keys == rows_keys(SmallRows, 10) \o rows_keys(LargeRows, 5)

RECURSIVE pad_keys(_, _)
pad_keys(inventory, keys) ==
    IF keys = <<>> THEN inventory
    ELSE IF Head(keys) \in DOMAIN inventory
         THEN pad_keys(inventory, Tail(keys))
         ELSE pad_keys((Head(keys) :> EmptyDrawer) @@ inventory, Tail(keys))

\* mutant: range(1, 9) for the small drawers
pad_inventory_short(inventory) ==
    pad_keys(pad_keys(inventory, rows_keys(SmallRows, 9)), rows_keys(LargeRows, 5))

pad_inventory(inventory) ==
    pad_keys(pad_keys(inventory, rows_keys(SmallRows, 10)), rows_keys(LargeRows, 5))

(***************************************************************************)
(* inventory_manager.py: the store                                         *)
(***************************************************************************)
EmptyDict == <<>>

\* drawer_id[0].upper(), drawer_id[1:]
row_of(drawer_id) == upper(<<Head(drawer_id)>>)

column_of(drawer_id) == Tail(drawer_id)

\* the rows "SELECT ... FROM drawers WHERE cabinet = ?" fetches
cabinet_rows(db, cabinet) == {k \in DOMAIN db : k[1] = cabinet}

\* f"{row}{column}".upper()
inventory_key(k) == upper(k[2] \o k[3])

\* the dicts the loop "inventory[key.upper()] = ..." can end with: the SELECT has
\* no ORDER BY, and of the rows that share a key the one fetched last stays
RECURSIVE fill_inventory(_, _, _)
fill_inventory(db, rows, keys) ==
    IF keys = {} THEN {EmptyDict}
    ELSE LET key == CHOOSE x \in keys : TRUE
         IN  {(key :> [name |-> db[k].name, qty |-> db[k].qty]) @@ inv :
                 k \in {r \in rows : inventory_key(r) = key},
                 inv \in fill_inventory(db, rows, keys \ {key})}

\* get_inventory: the set of dicts a call can return; db_ok = FALSE is a failing
\* connection or query, which gives the empty dict
get_inventory(db, cabinet, db_ok) ==
    IF ~db_ok THEN {EmptyDict}
    ELSE fill_inventory(db, cabinet_rows(db, cabinet),
                        {inventory_key(k) : k \in cabinet_rows(db, cabinet)})

get_drawer(db, drawer_id, cabinet, db_ok) ==
    IF Len(drawer_id) < 2 THEN EmptyDrawer
    ELSE IF ~db_ok THEN EmptyDrawer
    ELSE LET k == <<cabinet, row_of(drawer_id), column_of(drawer_id)>>
         IN  IF k \in DOMAIN db THEN [name |-> db[k].name, qty |-> db[k].qty]
             ELSE EmptyDrawer

\* mutant: INSERT OR REPLACE keyed by (row, column): the drawer of the same row and
\* column in any other cabinet is replaced
update_drawer_in_db_any_cabinet(db, drawer_id, name, qty, cabinet, db_ok) ==
    IF Len(drawer_id) < 2 THEN [drawers |-> db, raised |-> FALSE]
    ELSE IF ~db_ok THEN [drawers |-> db, raised |-> TRUE]
    ELSE LET kept == {k \in DOMAIN db : ~(k[2] = row_of(drawer_id) /\
                                          k[3] = column_of(drawer_id))}
         IN  [drawers |-> (<<cabinet, row_of(drawer_id), column_of(drawer_id)>>
                               :> [name |-> name, qty |-> qty]) @@
                          [k \in kept |-> db[k]],
              raised |-> FALSE]

\* mutant: a drawer id of one character is written like any other
update_drawer_in_db_unguarded(db, drawer_id, name, qty, cabinet, db_ok) ==
    IF ~db_ok THEN [drawers |-> db, raised |-> TRUE]
    ELSE [drawers |-> (<<cabinet, row_of(drawer_id), column_of(drawer_id)>>
                          :> [name |-> name, qty |-> qty]) @@ db,
          raised |-> FALSE]

\* INSERT OR REPLACE keyed by (cabinet, row, column); raised = the exception
\* re-raised when the connection or the statement fails
update_drawer_in_db(db, drawer_id, name, qty, cabinet, db_ok) ==
    IF Len(drawer_id) < 2 THEN [drawers |-> db, raised |-> FALSE]
    ELSE IF ~db_ok THEN [drawers |-> db, raised |-> TRUE]
    ELSE [drawers |-> (<<cabinet, row_of(drawer_id), column_of(drawer_id)>>
                          :> [name |-> name, qty |-> qty]) @@ db,
          raised |-> FALSE]

\* sorted(r[0] for r in "SELECT DISTINCT cabinet FROM drawers" if r[0]), as a set
get_all_cabinets(db, db_ok) ==
    IF ~db_ok THEN {} ELSE {k[1] : k \in DOMAIN db} \ {""}

(***************************************************************************)
(* inventory_manager.py: the history.  m is the manager: its table and its *)
(* two stacks.                                                             *)
(***************************************************************************)
Manager == [drawers |-> drawers, action_history |-> action_history,
            redo_stack |-> redo_stack]

\* mutant: the redo stack is not cleared
record_action_keeping_redo(m, action) ==
    [m EXCEPT !.action_history = Append(m.action_history, action)]

record_action(m, action) ==
    [m EXCEPT !.action_history = Append(m.action_history, action),
              !.redo_stack = <<>>]

\* mutant: a drawer counts as new as soon as its name is empty
update_drawer_new_by_name(m, drawer_id, new_name, new_qty, cabinet, read_ok, write_ok) ==
    LET old == get_drawer(m.drawers, drawer_id, cabinet, read_ok)
        is_new == old.name = <<>>
        action_data == [id |-> drawer_id, cabinet |-> cabinet,
                        prev_name |-> old.name, prev_qty |-> old.qty,
                        new_name |-> new_name, new_qty |-> new_qty,
                        type |-> IF is_new THEN "delete" ELSE "update"]
        recorded == record_action(m, action_data)
        written == update_drawer_in_db(recorded.drawers, drawer_id, new_name, new_qty,
                                       cabinet, write_ok)
    IN  [drawers |-> written.drawers,
         action_history |-> recorded.action_history,
         redo_stack |-> recorded.redo_stack,
         raised |-> written.raised]

\* mutant: the table is written before the action is recorded
update_drawer_write_first(m, drawer_id, new_name, new_qty, cabinet, read_ok, write_ok) ==
    LET old == get_drawer(m.drawers, drawer_id, cabinet, read_ok)
        is_new == old.name = <<>> /\ old.qty = 0
        action_data == [id |-> drawer_id, cabinet |-> cabinet,
                        prev_name |-> old.name, prev_qty |-> old.qty,
                        new_name |-> new_name, new_qty |-> new_qty,
                        type |-> IF is_new THEN "delete" ELSE "update"]
        written == update_drawer_in_db(m.drawers, drawer_id, new_name, new_qty,
                                       cabinet, write_ok)
        recorded == IF written.raised THEN m ELSE record_action(m, action_data)
    IN  [drawers |-> written.drawers,
         action_history |-> recorded.action_history,
         redo_stack |-> recorded.redo_stack,
         raised |-> written.raised]

\* read_ok: the prior-value read works; write_ok: the store write works
update_drawer(m, drawer_id, new_name, new_qty, cabinet, read_ok, write_ok) ==
    LET old == get_drawer(m.drawers, drawer_id, cabinet, read_ok)
        is_new == old.name = <<>> /\ old.qty = 0
        action_data == [id |-> drawer_id, cabinet |-> cabinet,
                        prev_name |-> old.name, prev_qty |-> old.qty,
                        new_name |-> new_name, new_qty |-> new_qty,
                        type |-> IF is_new THEN "delete" ELSE "update"]
        recorded == record_action(m, action_data)
        written == update_drawer_in_db(recorded.drawers, drawer_id, new_name, new_qty,
                                       cabinet, write_ok)
    IN  [drawers |-> written.drawers,
         action_history |-> recorded.action_history,
         redo_stack |-> recorded.redo_stack,
         raised |-> written.raised]

\* mutant: only an 'update' action is reverted
undo_skipping_delete(m, write_ok) ==
    IF m.action_history = <<>>
    THEN [drawers |-> m.drawers, action_history |-> m.action_history,
          redo_stack |-> m.redo_stack, ret |-> FALSE]
    ELSE LET action == m.action_history[Len(m.action_history)]
             popped == SubSeq(m.action_history, 1, Len(m.action_history) - 1)
             written ==
                 IF action.type = "update"
                 THEN update_drawer_in_db(m.drawers, action.id, action.prev_name,
                                          action.prev_qty, action.cabinet, write_ok)
                 ELSE [drawers |-> m.drawers, raised |-> FALSE]
         IN  IF written.raised
             THEN [drawers |-> m.drawers, action_history |-> popped,
                   redo_stack |-> m.redo_stack, ret |-> FALSE]
             ELSE [drawers |-> written.drawers, action_history |-> popped,
                   redo_stack |-> Append(m.redo_stack, action), ret |-> TRUE]

\* mutant: no check for an empty history; there is nothing to revert and the
\* call reports success
undo_unguarded(m, write_ok) ==
    IF m.action_history = <<>>
    THEN [drawers |-> m.drawers, action_history |-> m.action_history,
          redo_stack |-> m.redo_stack, ret |-> TRUE]
    ELSE LET action == m.action_history[Len(m.action_history)]
             popped == SubSeq(m.action_history, 1, Len(m.action_history) - 1)
             written ==
                 IF action.type = "update"
                 THEN update_drawer_in_db(m.drawers, action.id, action.prev_name,
                                          action.prev_qty, action.cabinet, write_ok)
                 ELSE update_drawer_in_db(m.drawers, action.id, <<>>, 0,
                                          action.cabinet, write_ok)
         IN  IF written.raised
             THEN [drawers |-> m.drawers, action_history |-> popped,
                   redo_stack |-> m.redo_stack, ret |-> FALSE]
             ELSE [drawers |-> written.drawers, action_history |-> popped,
                   redo_stack |-> Append(m.redo_stack, action), ret |-> TRUE]

\* mutant: the undone action is pushed on the redo stack and stays in the history
undo_copying(m, write_ok) ==
    IF m.action_history = <<>>
    THEN [drawers |-> m.drawers, action_history |-> m.action_history,
          redo_stack |-> m.redo_stack, ret |-> FALSE]
    ELSE LET action == m.action_history[Len(m.action_history)]
             popped == SubSeq(m.action_history, 1, Len(m.action_history) - 1)
             written ==
                 IF action.type = "update"
                 THEN update_drawer_in_db(m.drawers, action.id, action.prev_name,
                                          action.prev_qty, action.cabinet, write_ok)
                 ELSE update_drawer_in_db(m.drawers, action.id, <<>>, 0,
                                          action.cabinet, write_ok)
         IN  IF written.raised
             THEN [drawers |-> m.drawers, action_history |-> popped,
                   redo_stack |-> m.redo_stack, ret |-> FALSE]
             ELSE [drawers |-> written.drawers, action_history |-> m.action_history,
                   redo_stack |-> Append(m.redo_stack, action), ret |-> TRUE]

\* mutant: an action whose replay failed is put back on the history
undo_requeueing(m, write_ok) ==
    IF m.action_history = <<>>
    THEN [drawers |-> m.drawers, action_history |-> m.action_history,
          redo_stack |-> m.redo_stack, ret |-> FALSE]
    ELSE LET action == m.action_history[Len(m.action_history)]
             popped == SubSeq(m.action_history, 1, Len(m.action_history) - 1)
             written ==
                 IF action.type = "update"
                 THEN update_drawer_in_db(m.drawers, action.id, action.prev_name,
                                          action.prev_qty, action.cabinet, write_ok)
                 ELSE update_drawer_in_db(m.drawers, action.id, <<>>, 0,
                                          action.cabinet, write_ok)
         IN  IF written.raised
             THEN [drawers |-> m.drawers, action_history |-> m.action_history,
                   redo_stack |-> m.redo_stack, ret |-> FALSE]
             ELSE [drawers |-> written.drawers, action_history |-> popped,
                   redo_stack |-> Append(m.redo_stack, action), ret |-> TRUE]

\* mutant: the undo of a Create removes the row
undo_removing(m, write_ok) ==
    IF m.action_history = <<>>
    THEN [drawers |-> m.drawers, action_history |-> m.action_history,
          redo_stack |-> m.redo_stack, ret |-> FALSE]
    ELSE LET action == m.action_history[Len(m.action_history)]
             popped == SubSeq(m.action_history, 1, Len(m.action_history) - 1)
             written ==
                 IF action.type = "update"
                 THEN update_drawer_in_db(m.drawers, action.id, action.prev_name,
                                          action.prev_qty, action.cabinet, write_ok)
                 ELSE IF ~write_ok /\ Len(action.id) >= 2
                 THEN [drawers |-> m.drawers, raised |-> TRUE]
                 ELSE [drawers |->
                           [k \in DOMAIN m.drawers \
                                  {<<action.cabinet, row_of(action.id), column_of(action.id)>>} |->
                               m.drawers[k]],
                       raised |-> FALSE]
         IN  IF written.raised
             THEN [drawers |-> m.drawers, action_history |-> popped,
                   redo_stack |-> m.redo_stack, ret |-> FALSE]
             ELSE [drawers |-> written.drawers, action_history |-> popped,
                   redo_stack |-> Append(m.redo_stack, action), ret |-> TRUE]

\* mutant: a per-cabinet undo, which takes the latest action of cabinet "Default"
\* when there is one
undo_per_cabinet(m, write_ok) ==
    IF m.action_history = <<>>
    THEN [drawers |-> m.drawers, action_history |-> m.action_history,
          redo_stack |-> m.redo_stack, ret |-> FALSE]
    ELSE LET mine == {i \in 1..Len(m.action_history) :
                         m.action_history[i].cabinet = "Default"}
             at == IF mine = {} THEN Len(m.action_history)
                   ELSE CHOOSE i \in mine : \A j \in mine : j <= i
             action == m.action_history[at]
             popped == SubSeq(m.action_history, 1, at - 1) \o
                       SubSeq(m.action_history, at + 1, Len(m.action_history))
             written ==
                 IF action.type = "update"
                 THEN update_drawer_in_db(m.drawers, action.id, action.prev_name,
                                          action.prev_qty, action.cabinet, write_ok)
                 ELSE update_drawer_in_db(m.drawers, action.id, <<>>, 0,
                                          action.cabinet, write_ok)
         IN  IF written.raised
             THEN [drawers |-> m.drawers, action_history |-> popped,
                   redo_stack |-> m.redo_stack, ret |-> FALSE]
             ELSE [drawers |-> written.drawers, action_history |-> popped,
                   redo_stack |-> Append(m.redo_stack, action), ret |-> TRUE]

undo(m, write_ok) ==
    IF m.action_history = <<>>
    THEN [drawers |-> m.drawers, action_history |-> m.action_history,
          redo_stack |-> m.redo_stack, ret |-> FALSE]
    ELSE LET action == m.action_history[Len(m.action_history)]
             popped == SubSeq(m.action_history, 1, Len(m.action_history) - 1)
             written ==
                 IF action.type = "update"
                 THEN update_drawer_in_db(m.drawers, action.id, action.prev_name,
                                          action.prev_qty, action.cabinet, write_ok)
                 ELSE IF action.type = "delete"
                 THEN update_drawer_in_db(m.drawers, action.id, <<>>, 0,
                                          action.cabinet, write_ok)
                 ELSE [drawers |-> m.drawers, raised |-> FALSE]
         IN  IF written.raised
             THEN [drawers |-> m.drawers, action_history |-> popped,
                   redo_stack |-> m.redo_stack, ret |-> FALSE]
             ELSE [drawers |-> written.drawers, action_history |-> popped,
                   redo_stack |-> Append(m.redo_stack, action), ret |-> TRUE]

\* mutant: redo takes the oldest undone action (pop(0))
redo_oldest(m, write_ok) ==
    IF m.redo_stack = <<>>
    THEN [drawers |-> m.drawers, action_history |-> m.action_history,
          redo_stack |-> m.redo_stack, ret |-> FALSE]
    ELSE LET action == m.redo_stack[1]
             popped == SubSeq(m.redo_stack, 2, Len(m.redo_stack))
             written == update_drawer_in_db(m.drawers, action.id, action.new_name,
                                            action.new_qty, action.cabinet, write_ok)
         IN  IF written.raised
             THEN [drawers |-> m.drawers, action_history |-> m.action_history,
                   redo_stack |-> popped, ret |-> FALSE]
             ELSE [drawers |-> written.drawers,
                   action_history |-> Append(m.action_history, action),
                   redo_stack |-> popped, ret |-> TRUE]

redo(m, write_ok) ==
    IF m.redo_stack = <<>>
    THEN [drawers |-> m.drawers, action_history |-> m.action_history,
          redo_stack |-> m.redo_stack, ret |-> FALSE]
    ELSE LET action == m.redo_stack[Len(m.redo_stack)]
             popped == SubSeq(m.redo_stack, 1, Len(m.redo_stack) - 1)
             written == update_drawer_in_db(m.drawers, action.id, action.new_name,
                                            action.new_qty, action.cabinet, write_ok)
         IN  IF written.raised
             THEN [drawers |-> m.drawers, action_history |-> m.action_history,
                   redo_stack |-> popped, ret |-> FALSE]
             ELSE [drawers |-> written.drawers,
                   action_history |-> Append(m.action_history, action),
                   redo_stack |-> popped, ret |-> TRUE]

\* mutant: DELETE FROM drawers WHERE cabinet = 'Default'
clear_inventory_one_cabinet(db, db_ok) ==
    IF db_ok THEN [drawers |-> [k \in {j \in DOMAIN db : j[1] # "Default"} |-> db[k]],
                   raised |-> FALSE]
    ELSE [drawers |-> db, raised |-> TRUE]

\* DELETE FROM drawers
clear_inventory(db, db_ok) ==
    IF db_ok THEN [drawers |-> EmptyDict, raised |-> FALSE]
    ELSE [drawers |-> db, raised |-> TRUE]

(***************************************************************************)
(* The calls of one session.  A call runs from entry to return; Idle says  *)
(* that no batch handler is between two of its records.                    *)
(***************************************************************************)
\* no batch handler is running; of a running one: the lines not yet processed, for
\* bulk_update the padded dict loaded before the loop and the keys the query had
\* fetched, for import_csv the header row
NoJob == [kind |-> "none", cabinet |-> "", lines |-> <<>>, inventory |-> EmptyDict,
          fetched |-> {}, header |-> <<>>]

Idle == job = NoJob

NoPadCall == [inventory |-> EmptyDict, returned |-> EmptyDict, done |-> FALSE]

\* no call is running beside the session
NoThreads == <<>>

\* what a call gave its caller: ret is the value returned ("raised": an exception
\* left the call), out the inventory a read handler rendered or wrote out
Returned(op, ret) == [op |-> op, ret |-> ret, out |-> EmptyDict]

Shown(op, out) == [op |-> op, ret |-> "ok", out |-> out]

MaxHist == 2

UpdateDrawer(drawer_id, new_name, new_qty, cabinet, read_ok, write_ok) ==
    /\ Idle
    /\ Len(action_history) < MaxHist
    /\ LET r == update_drawer(Manager, drawer_id, new_name, new_qty, cabinet,
                              read_ok, write_ok)
       IN  /\ drawers' = r.drawers
           /\ action_history' = r.action_history
           /\ redo_stack' = r.redo_stack
           /\ last' = Returned("update_drawer", IF r.raised THEN "raised" ELSE "None")
    /\ UNCHANGED <<job, padcall, threads>>

Undo(write_ok) ==
    /\ Idle
    /\ LET r == undo(Manager, write_ok)
       IN  /\ drawers' = r.drawers
           /\ action_history' = r.action_history
           /\ redo_stack' = r.redo_stack
           /\ last' = Returned("undo", IF r.ret THEN "True" ELSE "False")
    /\ UNCHANGED <<job, padcall, threads>>

Redo(write_ok) ==
    /\ Idle
    /\ LET r == redo(Manager, write_ok)
       IN  /\ drawers' = r.drawers
           /\ action_history' = r.action_history
           /\ redo_stack' = r.redo_stack
           /\ last' = Returned("redo", IF r.ret THEN "True" ELSE "False")
    /\ UNCHANGED <<job, padcall, threads>>

\* mutant: the clear forgets the history as well
ClearInventoryForgetting(db_ok) ==
    /\ Idle
    /\ LET r == clear_inventory(drawers, db_ok)
       IN  /\ drawers' = r.drawers
           /\ last' = Returned("clear_inventory", IF r.raised THEN "raised" ELSE "None")
    /\ action_history' = <<>>
    /\ redo_stack' = <<>>
    /\ UNCHANGED <<job, padcall, threads>>

ClearInventory(db_ok) ==
    /\ Idle
    /\ LET r == clear_inventory(drawers, db_ok)
       IN  /\ drawers' = r.drawers
           /\ last' = Returned("clear_inventory", IF r.raised THEN "raised" ELSE "None")
    /\ UNCHANGED <<action_history, redo_stack, job, padcall, threads>>

(***************************************************************************)
(* The handlers that read and pad (app.py, export_manager.py)              *)
(***************************************************************************)
\* mutant: the padded entries are written back to the table
IndexPersisting(cabinet, db_ok) ==
    /\ Idle
    /\ \E inventory \in get_inventory(drawers, cabinet, db_ok) :
           /\ last' = Shown("index", pad_inventory(inventory))
           /\ drawers' = [k \in DOMAIN drawers \cup
                                {<<cabinet, <<key[1]>>, Tail(key)>> :
                                    key \in DOMAIN pad_inventory(inventory)} |->
                              IF k \in DOMAIN drawers THEN drawers[k] ELSE EmptyDrawer]
    /\ UNCHANGED <<action_history, redo_stack, job, padcall, threads>>

\* index(): render pad_inventory(get_inventory(cabinet))
Index(cabinet, db_ok) ==
    /\ Idle
    /\ \E inventory \in get_inventory(drawers, cabinet, db_ok) :
           last' = Shown("index", pad_inventory(inventory))
    /\ UNCHANGED <<drawers, action_history, redo_stack, job, padcall, threads>>

\* search(): the padded entries whose key, name or quantity contains the query
search_filter(full_inventory, query) ==
    LET hits == {key \in DOMAIN full_inventory :
                    \/ contains(lower(key), query)
                    \/ contains(lower(full_inventory[key].name), query)
                    \/ contains(str_int(full_inventory[key].qty), query)}
    IN  [key \in hits |-> full_inventory[key]]

Search(cabinet, q, db_ok) ==
    /\ Idle
    /\ \E inventory \in get_inventory(drawers, cabinet, db_ok) :
           last' = Shown("search", search_filter(pad_inventory(inventory), lower(q)))
    /\ UNCHANGED <<drawers, action_history, redo_stack, job, padcall, threads>>

\* get_inventory_api(): the padded inventory as JSON
GetInventoryApi(cabinet, db_ok) ==
    /\ Idle
    /\ \E inventory \in get_inventory(drawers, cabinet, db_ok) :
           last' = Shown("get_inventory_api", pad_inventory(inventory))
    /\ UNCHANGED <<drawers, action_history, redo_stack, job, padcall, threads>>

\* ExportManager.export_csv / export_json / export_txt / export_excel: the
\* padded inventory flattened to (key, name, qty) and sent as a file
Export(format, cabinet, db_ok) ==
    /\ Idle
    /\ \E inventory \in get_inventory(drawers, cabinet, db_ok) :
           last' = Shown(format, pad_inventory(inventory))
    /\ UNCHANGED <<drawers, action_history, redo_stack, job, padcall, threads>>

\* one round of periodic_backup: every cabinet's padded inventory goes to backup.csv
PeriodicBackup(db_ok) ==
    /\ Idle
    /\ \E backup \in [get_all_cabinets(drawers, db_ok) ->
                         UNION {{pad_inventory(inv) : inv \in get_inventory(drawers, c, db_ok)} :
                                   c \in get_all_cabinets(drawers, db_ok)}] :
           /\ \A c \in DOMAIN backup :
                  backup[c] \in {pad_inventory(inv) : inv \in get_inventory(drawers, c, db_ok)}
           /\ last' = Shown("periodic_backup", backup)
    /\ UNCHANGED <<drawers, action_history, redo_stack, job, padcall, threads>>

\* pad_inventory(inventory), called on a dict
PadInventory ==
    /\ ~padcall.done
    /\ padcall' = [padcall EXCEPT !.returned = pad_inventory(padcall.inventory),
                                  !.done = TRUE]
    /\ last' = Returned("pad_inventory", "ok")
    /\ UNCHANGED <<drawers, action_history, redo_stack, job, threads>>

(***************************************************************************)
(* app.py bulk_update and import_manager.py import_txt, one line a step    *)
(***************************************************************************)
\* what the processing of one line comes to: a call of update_drawer, or nothing
Call(drawer_id, name, qty) == [do |-> "update_drawer", id |-> drawer_id, name |-> name, qty |-> qty]

Skip == [do |-> "continue", id |-> <<>>, name |-> <<>>, qty |-> 0]

name_matches(inventory, keys, name) ==
    {k \in keys : lower(inventory[k].name) = lower(name)}

\* next(loc for loc, val in inventory.items() if val['name'].lower() == name.lower()):
\* the fetched rows come first in the dict, in the order the query gave them (any of
\* them can be the first that matches), then the padded keys in canonical order
first_match(inventory, fetched, name) ==
    LET hit == name_matches(inventory, fetched \cap DOMAIN inventory, name)
        padded == SelectSeq(generate_all_drawer_keys,
                            LAMBDA k : /\ k \in DOMAIN inventory
                                       /\ k \notin fetched
                                       /\ lower(inventory[k].name) = lower(name))
    IN  IF hit # {} THEN hit
        ELSE IF padded # <<>> THEN {Head(padded)}
        ELSE {}

\* sorted(list(set(all_keys) - used_keys)): the set of its first element, empty if none
first_available(used_keys) ==
    LET available_keys ==
            {generate_all_drawer_keys[i] : i \in 1..Len(generate_all_drawer_keys)} \ used_keys
    IN  {k \in available_keys : \A j \in available_keys \ {k} : str_lt(k, j)}

allocate(current_inventory, name, qty) ==
    IF first_available(DOMAIN current_inventory) = {} THEN Skip
    ELSE Call(CHOOSE k \in first_available(DOMAIN current_inventory) : TRUE, name, qty)

\* the body of the loop of bulk_update for one line: the calls it can come to
bulk_update_line(db, inventory, fetched, line, cabinet, read_ok) ==
    LET parts == strip_all(split(line, ","))
    IN  IF Len(parts) = 3
        THEN LET qty == int(parts[3])
             IN  IF ~qty.ok THEN {Skip}
                 ELSE IF qty.val = 0 THEN {Call(upper(parts[1]), <<>>, 0)}
                 ELSE {Call(upper(parts[1]), strip(parts[2]), qty.val)}
        ELSE IF Len(parts) = 2
        THEN LET first == parts[1]
                 qty == int(parts[2])
                 name == strip(first)
             IN  IF ~qty.ok THEN {Skip}
                 ELSE IF upper(first) \in DOMAIN inventory
                 THEN IF qty.val = 0 THEN {Call(upper(first), <<>>, 0)}
                      ELSE {Call(upper(first), inventory[upper(first)].name, qty.val)}
                 ELSE IF first_match(inventory, fetched, name) # {}
                 THEN {IF qty.val = 0 THEN Call(match, <<>>, 0) ELSE Call(match, name, qty.val) :
                           match \in first_match(inventory, fetched, name)}
                 ELSE {allocate(current_inventory, name, qty.val) :
                           current_inventory \in get_inventory(db, cabinet, read_ok)}
        ELSE {Skip}

Unparsed == [parsed |-> FALSE, id |-> <<>>, name |-> <<>>, qty |-> 0]

\* import_txt: the shape "id: name (quantity)"
colon_shape(line) ==
    IF IsIn(line, ":") /\ IsIn(line, "(") /\ IsIn(line, ")")
    THEN LET parts == split(line, ":")
             drawer_id_part == upper(strip(parts[1]))
             name_qty_part == strip(join(Tail(parts), ":"))
             name_start == find(name_qty_part, "(")
             name_end == rfind(name_qty_part, ")")
             qty == int(strip(SubSeq(name_qty_part, name_start + 2, name_end)))
         IN  IF name_start # -1 /\ name_end # -1 /\ name_end > name_start /\ qty.ok
             THEN [parsed |-> TRUE, id |-> drawer_id_part,
                   name |-> strip(SubSeq(name_qty_part, 1, name_start)), qty |-> qty.val]
             ELSE Unparsed
    ELSE Unparsed

\* import_txt: a 2-part line whose first part is no key of the inventory
import_txt_by_name(current_inventory, potential_name, qty) ==
    IF name_matches(current_inventory, DOMAIN current_inventory, potential_name) # {}
    THEN {Call(matched_id, potential_name, qty) :
              matched_id \in name_matches(current_inventory, DOMAIN current_inventory,
                                          potential_name)}
    ELSE {allocate(current_inventory, potential_name, qty)}

\* import_txt: the shapes "id,name,quantity" and "name,quantity"
comma_shape(db, line, cabinet, read_ok) ==
    LET parts == strip_all(split(line, ","))
    IN  IF Len(parts) = 3
        THEN IF int(parts[3]).ok THEN {Call(upper(parts[1]), parts[2], int(parts[3]).val)}
             ELSE {Skip}
        ELSE IF Len(parts) = 2
        THEN LET potential_name == parts[1]
                 potential_qty == int(parts[2])
             IN  IF ~potential_qty.ok THEN {Skip}
                 ELSE UNION
                     {IF upper(potential_name) \in DOMAIN inventory
                      THEN {Call(upper(potential_name),
                                 get_drawer(db, upper(potential_name), cabinet, read_ok).name,
                                 potential_qty.val)}
                      ELSE UNION {import_txt_by_name(current_inventory, potential_name,
                                                     potential_qty.val) :
                                      current_inventory \in get_inventory(db, cabinet, read_ok)} :
                          inventory \in get_inventory(db, cabinet, read_ok)}
        ELSE {Skip}

\* the body of the loop of import_txt for one line; "if drawer_id:" drops an empty id
import_txt_line(db, raw, cabinet, read_ok) ==
    LET line == strip(raw)
        resolved == IF colon_shape(line).parsed
                    THEN {Call(colon_shape(line).id, colon_shape(line).name,
                               colon_shape(line).qty)}
                    ELSE comma_shape(db, line, cabinet, read_ok)
    IN  IF line = <<>> THEN {Skip}
        ELSE {IF call.do = "update_drawer" /\ call.id = <<>> THEN Skip ELSE call :
                  call \in resolved}

MaxBatchHist == 3

\* bulk_update up to its loop; text is the input as its lines
BulkUpdateStart(cabinet, text, db_ok) ==
    /\ Idle
    /\ Len(action_history) + Len(text) <= MaxBatchHist
    /\ LET lines == SelectSeq(strip_all(text), LAMBDA line : line # <<>>)
       IN  IF lines = <<>>
           THEN /\ last' = Returned("bulk_update", "redirect")
                /\ UNCHANGED job
           ELSE \E inventory \in get_inventory(drawers, cabinet, db_ok) :
                    /\ job' = [kind |-> "bulk_update", cabinet |-> cabinet, lines |-> lines,
                               inventory |-> pad_inventory(inventory),
                               fetched |-> DOMAIN inventory, header |-> <<>>]
                    /\ last' = Returned("bulk_update", "loop")
    /\ UNCHANGED <<drawers, action_history, redo_stack, padcall, threads>>

\* mutant: the line is written to the table without an action being recorded
BulkUpdateLineUnrecorded(read_ok, write_ok) ==
    /\ job.kind = "bulk_update"
    /\ job.lines # <<>>
    /\ \E call \in bulk_update_line(drawers, job.inventory, job.fetched, Head(job.lines),
                                    job.cabinet, read_ok) :
           IF call.do = "continue"
           THEN /\ last' = Returned("bulk_update_line", "continue")
                /\ UNCHANGED <<drawers, action_history, redo_stack>>
           ELSE LET w == update_drawer_in_db(drawers, call.id, call.name, call.qty,
                                             job.cabinet, write_ok)
                IN  /\ drawers' = w.drawers
                    /\ UNCHANGED <<action_history, redo_stack>>
                    /\ last' = Returned("bulk_update_line",
                                        IF w.raised THEN "raised" ELSE "None")
    /\ job' = [job EXCEPT !.lines = Tail(job.lines)]
    /\ UNCHANGED <<padcall, threads>>

\* mutant: a line that cannot be processed ends the loop
BulkUpdateLineAborting(read_ok, write_ok) ==
    /\ job.kind = "bulk_update"
    /\ job.lines # <<>>
    /\ \E call \in bulk_update_line(drawers, job.inventory, job.fetched, Head(job.lines),
                                    job.cabinet, read_ok) :
           IF call.do = "continue"
           THEN /\ last' = Returned("bulk_update_line", "continue")
                /\ job' = [job EXCEPT !.lines = <<>>]
                /\ UNCHANGED <<drawers, action_history, redo_stack>>
           ELSE LET r == update_drawer(Manager, call.id, call.name, call.qty, job.cabinet,
                                       read_ok, write_ok)
                IN  /\ drawers' = r.drawers
                    /\ action_history' = r.action_history
                    /\ redo_stack' = r.redo_stack
                    /\ job' = [job EXCEPT !.lines = Tail(job.lines)]
                    /\ last' = Returned("bulk_update_line",
                                        IF r.raised THEN "raised" ELSE "None")
    /\ UNCHANGED <<padcall, threads>>

\* one turn of the loop; an exception of update_drawer is caught and the loop goes on
BulkUpdateLine(read_ok, write_ok) ==
    /\ job.kind = "bulk_update"
    /\ job.lines # <<>>
    /\ \E call \in bulk_update_line(drawers, job.inventory, job.fetched, Head(job.lines),
                                    job.cabinet, read_ok) :
           IF call.do = "continue"
           THEN /\ last' = Returned("bulk_update_line", "continue")
                /\ UNCHANGED <<drawers, action_history, redo_stack>>
           ELSE LET r == update_drawer(Manager, call.id, call.name, call.qty, job.cabinet,
                                       read_ok, write_ok)
                IN  /\ drawers' = r.drawers
                    /\ action_history' = r.action_history
                    /\ redo_stack' = r.redo_stack
                    /\ last' = Returned("bulk_update_line",
                                        IF r.raised THEN "raised" ELSE "None")
    /\ job' = [job EXCEPT !.lines = Tail(job.lines)]
    /\ UNCHANGED <<padcall, threads>>

BulkUpdateEnd ==
    /\ job.kind = "bulk_update"
    /\ job.lines = <<>>
    /\ job' = NoJob
    /\ last' = Returned("bulk_update", "redirect")
    /\ UNCHANGED <<drawers, action_history, redo_stack, padcall, threads>>

\* import_txt up to its loop; content is the file as its lines
ImportTxtStart(cabinet, content) ==
    /\ Idle
    /\ Len(action_history) + Len(content) <= MaxBatchHist
    /\ job' = [kind |-> "import_txt", cabinet |-> cabinet, lines |-> content,
               inventory |-> EmptyDict, fetched |-> {}, header |-> <<>>]
    /\ last' = Returned("import_txt", "loop")
    /\ UNCHANGED <<drawers, action_history, redo_stack, padcall, threads>>

\* one turn of the loop; an exception of update_drawer ends the import with False
ImportTxtLine(read_ok, write_ok) ==
    /\ job.kind = "import_txt"
    /\ job.lines # <<>>
    /\ \E call \in import_txt_line(drawers, Head(job.lines), job.cabinet, read_ok) :
           IF call.do = "continue"
           THEN /\ last' = Returned("import_txt_line", "continue")
                /\ job' = [job EXCEPT !.lines = Tail(job.lines)]
                /\ UNCHANGED <<drawers, action_history, redo_stack>>
           ELSE LET r == update_drawer(Manager, call.id, call.name, call.qty, job.cabinet,
                                       read_ok, write_ok)
                IN  /\ drawers' = r.drawers
                    /\ action_history' = r.action_history
                    /\ redo_stack' = r.redo_stack
                    /\ IF r.raised
                       THEN /\ job' = NoJob
                            /\ last' = Returned("import_txt", "False")
                       ELSE /\ job' = [job EXCEPT !.lines = Tail(job.lines)]
                            /\ last' = Returned("import_txt_line", "None")
    /\ UNCHANGED <<padcall, threads>>

ImportTxtEnd ==
    /\ job.kind = "import_txt"
    /\ job.lines = <<>>
    /\ job' = NoJob
    /\ last' = Returned("import_txt", "True")
    /\ UNCHANGED <<drawers, action_history, redo_stack, padcall, threads>>

(***************************************************************************)
(* import_manager.py import_csv and import_json, one record a step         *)
(***************************************************************************)
\* a line ends in an exception no handler of the loop catches
Abort == [do |-> "raise", id |-> <<>>, name |-> <<>>, qty |-> 0]

\* header.index(x): 0-based, -1 where Python raises ValueError
index_of(header, x) ==
    IF \E i \in 1..Len(header) : header[i] = x
    THEN (CHOOSE i \in 1..Len(header) : header[i] = x /\ \A k \in 1..(i - 1) : header[k] # x) - 1
    ELSE -1

\* the three assignments of import_csv under one try: the first ValueError leaves
\* the later columns at -1
csv_columns(header) ==
    LET id_col == index_of(header, <<"I", "D">>)
        name_col == index_of(header, <<"N", "a", "m", "e">>)
        qty_col == index_of(header, <<"Q", "u", "a", "n", "t", "i", "t", "y">>)
    IN  IF header = <<>> \/ id_col = -1 THEN [id |-> -1, name |-> -1, qty |-> -1]
        ELSE IF name_col = -1 THEN [id |-> id_col, name |-> -1, qty |-> -1]
        ELSE [id |-> id_col, name |-> name_col, qty |-> qty_col]

\* the body of the loop of import_csv for one row of csv.reader
import_csv_row(row, header) ==
    LET cols == csv_columns(header)
        drawer_id == IF cols.id # -1 /\ Len(row) > cols.id
                     THEN upper(strip(row[cols.id + 1]))
                     ELSE upper(strip(row[1]))
        name == IF cols.name # -1 /\ Len(row) > cols.name THEN strip(row[cols.name + 1])
                ELSE IF Len(row) > 1 THEN strip(row[2])
                ELSE <<>>
        qty == IF cols.qty # -1 /\ Len(row) > cols.qty THEN int(strip(row[cols.qty + 1]))
               ELSE IF Len(row) > 2 THEN int(strip(row[3]))
               ELSE [ok |-> TRUE, val |-> 0]
    IN  IF row = <<>> THEN Skip
        ELSE IF ~qty.ok THEN Skip
        ELSE Call(drawer_id, name, qty.val)

\* values of a parsed JSON document: str, int, float (in tenths), null, and "absent"
\* for a key a dict does not have
JsonStr(v) == [t |-> "str", v |-> v]

JsonInt(n) == [t |-> "int", v |-> n]

JsonFloat(tenths) == [t |-> "float", v |-> tenths]

JsonNull == [t |-> "null", v |-> 0]

JsonAbsent == [t |-> "absent", v |-> 0]

\* int(x) of a JSON value, x absent standing for the default given: err is the
\* exception raised
json_int(x, default) ==
    IF x.t = "absent" THEN [ok |-> TRUE, val |-> default, err |-> ""]
    ELSE IF x.t = "int" THEN [ok |-> TRUE, val |-> x.v, err |-> ""]
    ELSE IF x.t = "float"
    THEN [ok |-> TRUE, err |-> "",
          val |-> IF x.v >= 0 THEN x.v \div 10 ELSE 0 - ((0 - x.v) \div 10)]
    ELSE IF x.t = "str"
    THEN [ok |-> int(x.v).ok, val |-> int(x.v).val,
          err |-> IF int(x.v).ok THEN "" ELSE "ValueError"]
    ELSE [ok |-> FALSE, val |-> 0, err |-> "TypeError"]

\* the body of the loop of import_json for one item: details.get of a value that is
\* no dict, and .strip() of a name that is no str, raise AttributeError
import_json_item(drawer_id, details) ==
    IF details.shape # "dict" THEN Abort
    ELSE IF details.name.t \notin {"str", "absent"} THEN Abort
    ELSE IF ~json_int(details.qty, 0).ok THEN Skip
    ELSE Call(upper(drawer_id),
              IF details.name.t = "absent" THEN <<>> ELSE strip(details.name.v),
              json_int(details.qty, 0).val)

\* import_csv up to its loop: the first row is taken as the header
ImportCsvStart(cabinet, rows) ==
    /\ Idle
    /\ Len(action_history) + Len(rows) <= MaxBatchHist
    /\ job' = [kind |-> "import_csv", cabinet |-> cabinet,
               lines |-> IF rows = <<>> THEN <<>> ELSE Tail(rows),
               inventory |-> EmptyDict, fetched |-> {},
               header |-> IF rows = <<>> THEN <<>> ELSE Head(rows)]
    /\ last' = Returned("import_csv", "loop")
    /\ UNCHANGED <<drawers, action_history, redo_stack, padcall, threads>>

\* import_json up to its loop: a document that is no dict is refused
ImportJsonStart(cabinet, data) ==
    /\ Idle
    /\ Len(action_history) + Len(data.items) <= MaxBatchHist
    /\ IF data.dict
       THEN /\ job' = [kind |-> "import_json", cabinet |-> cabinet, lines |-> data.items,
                       inventory |-> EmptyDict, fetched |-> {}, header |-> <<>>]
            /\ last' = Returned("import_json", "loop")
       ELSE /\ last' = Returned("import_json", "False")
            /\ UNCHANGED job
    /\ UNCHANGED <<drawers, action_history, redo_stack, padcall, threads>>

\* one turn of the loop of import_csv or import_json; an exception the loop does not
\* catch, of update_drawer or of the record, ends the import with False
ImportRecord(kind, read_ok, write_ok) ==
    /\ job.kind = kind
    /\ kind \in {"import_csv", "import_json"}
    /\ job.lines # <<>>
    /\ LET call == IF kind = "import_csv" THEN import_csv_row(Head(job.lines), job.header)
                   ELSE import_json_item(Head(job.lines).id, Head(job.lines).details)
           r == update_drawer(Manager, call.id, call.name, call.qty, job.cabinet,
                              read_ok, write_ok)
       IN  IF call.do = "continue"
           THEN /\ last' = Returned(kind, "continue")
                /\ job' = [job EXCEPT !.lines = Tail(job.lines)]
                /\ UNCHANGED <<drawers, action_history, redo_stack>>
           ELSE IF call.do = "raise"
           THEN /\ last' = Returned(kind, "False")
                /\ job' = NoJob
                /\ UNCHANGED <<drawers, action_history, redo_stack>>
           ELSE /\ drawers' = r.drawers
                /\ action_history' = r.action_history
                /\ redo_stack' = r.redo_stack
                /\ IF r.raised
                   THEN /\ job' = NoJob
                        /\ last' = Returned(kind, "False")
                   ELSE /\ job' = [job EXCEPT !.lines = Tail(job.lines)]
                        /\ last' = Returned(kind, "None")
    /\ UNCHANGED <<padcall, threads>>

ImportEnd(kind) ==
    /\ job.kind = kind
    /\ kind \in {"import_csv", "import_json"}
    /\ job.lines = <<>>
    /\ job' = NoJob
    /\ last' = Returned(kind, "True")
    /\ UNCHANGED <<drawers, action_history, redo_stack, padcall, threads>>

(***************************************************************************)
(* Observer of the undo/redo law: a run of successful writes W1..Wn, then  *)
(* undos, then redos.  pre[i] is the table before Wi, post the table after *)
(* Wn.  Anything else ends the run.                                        *)
(***************************************************************************)
ObsOff ==
    [phase |-> "off", pre |-> <<>>, post |-> EmptyDict, undone |-> 0, redone |-> 0,
     dropped |-> 0]

\* dropped: how many undone actions the latest update_drawer call threw away
ObserveWrite ==
    obs' = IF last'.ret # "None" THEN [ObsOff EXCEPT !.dropped = Len(redo_stack)]
           ELSE IF obs.phase = "writing"
           THEN [obs EXCEPT !.pre = Append(obs.pre, drawers), !.post = drawers',
                            !.dropped = Len(redo_stack)]
           ELSE [phase |-> "writing", pre |-> <<drawers>>, post |-> drawers',
                 undone |-> 0, redone |-> 0, dropped |-> Len(redo_stack)]

ObserveUndo ==
    obs' = IF obs.phase \in {"writing", "undoing"} /\ obs.undone < Len(obs.pre)
           THEN [obs EXCEPT !.phase = "undoing", !.undone = obs.undone + 1,
                            !.dropped = 0]
           ELSE ObsOff

ObserveRedo ==
    obs' = IF obs.phase \in {"undoing", "redoing"} /\ obs.redone < obs.undone
           THEN [obs EXCEPT !.phase = "redoing", !.redone = obs.redone + 1]
           ELSE [ObsOff EXCEPT !.dropped = obs.dropped]

(***************************************************************************)
(* Spec: one session on the history engine, the storage working.           *)
(***************************************************************************)
Nut == <<"N", "u", "t">>

Cabinets == {"Default", "Shop"}

DrawerIds == {<<"A", "1">>, <<"a", "1">>, <<"B", "3">>, <<"Z">>}

Request(drawer_id, name, qty, cabinet) ==
    [id |-> drawer_id, name |-> name, qty |-> qty, cabinet |-> cabinet]

\* the update_drawer calls a session makes: a fresh drawer, a rewrite, an emptying
\* write through a lower-case id, a name without quantity, a second drawer, a
\* second cabinet, and a drawer id of one character
Requests ==
    {Request(<<"A", "1">>, Nut, 2, "Default"),
     Request(<<"a", "1">>, <<>>, 0, "Default"),
     Request(<<"A", "1">>, <<>>, 2, "Default"),
     Request(<<"B", "3">>, Nut, 2, "Default"),
     Request(<<"A", "1">>, Nut, 2, "Shop"),
     Request(<<"a", "1">>, <<>>, 0, "Shop"),
     Request(<<"Z">>, Nut, 2, "Default")}

InitialTables ==
    {EmptyDict,
     (<<"Default", <<"A">>, <<"1">>>> :> [name |-> Nut, qty |-> 5]),
     (<<"Shop", <<"B">>, <<"3">>>> :> [name |-> <<>>, qty |-> 0])}

Init ==
    /\ drawers \in InitialTables
    /\ action_history = <<>>
    /\ redo_stack = <<>>
    /\ last = Returned("init", "None")
    /\ job = NoJob
    /\ padcall = NoPadCall
    /\ threads = NoThreads
    /\ obs = ObsOff

Next ==
    \/ \E w \in Requests :
           UpdateDrawer(w.id, w.name, w.qty, w.cabinet, TRUE, TRUE) /\ ObserveWrite
    \/ Undo(TRUE) /\ ObserveUndo
    \/ Redo(TRUE) /\ ObserveRedo
    \/ ClearInventory(TRUE) /\ obs' = ObsOff

Spec == Init /\ [][Next]_vars

(***************************************************************************)
(* The history engine in one session (Spec)                                *)
(***************************************************************************)
\* what get_drawer answers for every drawer id of the session, in every cabinet
View(db) == [c \in Cabinets, d \in DrawerIds |-> get_drawer(db, d, c, TRUE)]

Top(stack) == stack[Len(stack)]

Front(stack) == SubSeq(stack, 1, Len(stack) - 1)

Actions(stack) == {stack[i] : i \in 1..Len(stack)}

\* C1: after n successful update_drawer calls W1..Wn, each of the following undo()
\* calls returns True, and after j of them (j <= n) get_drawer of every drawer is
\* what it was before W(n-j+1), so after n of them what it was before W1; each of
\* the redo() calls after that returns True, and once as many are redone as were
\* undone get_drawer of every drawer is what it was after Wn.
C1_UndoRedoInverse ==
    /\ obs.phase = "undoing" =>
          /\ last.op = "undo" /\ last.ret = "True"
          /\ View(drawers) = View(obs.pre[Len(obs.pre) - obs.undone + 1])
    /\ obs.phase = "redoing" =>
          /\ last.op = "redo" /\ last.ret = "True"
          /\ (obs.redone = obs.undone => View(drawers) = View(obs.post))

\* two writes, both undone, both redone, and the writes did change a drawer
C1_Witness ==
    /\ obs.phase = "redoing"
    /\ Len(obs.pre) >= 2
    /\ obs.undone = Len(obs.pre)
    /\ obs.redone = obs.undone
    /\ View(obs.pre[1]) # View(obs.pre[2])
    /\ View(obs.pre[2]) # View(obs.post)

\* C2: every update_drawer call leaves the redo stack empty, and a redo() called
\* right after an update_drawer call returns False and changes neither the table
\* nor the history nor the redo stack.
C2_RedoInvalidated ==
    [][/\ last'.op = "update_drawer" => redo_stack' = <<>>
       /\ (last.op = "update_drawer" /\ last'.op = "redo") =>
              /\ last'.ret = "False"
              /\ drawers' = drawers
              /\ action_history' = action_history
              /\ redo_stack' = redo_stack]_vars

\* undo, then a new update_drawer that threw the undone action away, then redo: False
C2_Witness ==
    /\ last.op = "redo"
    /\ last.ret = "False"
    /\ obs.dropped >= 1
    /\ action_history # <<>>

\* C3: an action is of type 'delete' (Create) exactly when its prev value is
\* ("", 0), in the history and in the redo stack; update_drawer records 'delete'
\* exactly when get_drawer gave ("", 0) before the write; a successful undo leaves
\* the drawer ("", 0) for a 'delete' action and (prev_name, prev_qty) for an
\* 'update' action.
C3_Classified ==
    \A a \in Actions(action_history) \cup Actions(redo_stack) :
        /\ a.type \in {"delete", "update"}
        /\ a.type = "delete" <=> (a.prev_name = <<>> /\ a.prev_qty = 0)

C3_CreateVsUpdate ==
    /\ []C3_Classified
    /\ [][/\ last'.op = "update_drawer" =>
                LET a == Top(action_history')
                IN  /\ a.type = "delete" <=>
                            get_drawer(drawers, a.id, a.cabinet, TRUE) = EmptyDrawer
                    /\ a.type = "update" <=>
                            get_drawer(drawers, a.id, a.cabinet, TRUE) # EmptyDrawer
          /\ (last'.op = "undo" /\ last'.ret = "True") =>
                LET a == Top(action_history)
                IN  get_drawer(drawers', a.id, a.cabinet, TRUE) =
                        IF a.type = "delete" THEN EmptyDrawer
                        ELSE [name |-> a.prev_name, qty |-> a.prev_qty]]_vars

\* a Create has just been undone while an Update is still in the history
C3_Witness ==
    /\ last.op = "undo"
    /\ last.ret = "True"
    /\ redo_stack # <<>>
    /\ Top(redo_stack).type = "delete"
    /\ Top(redo_stack).new_name # <<>>
    /\ \E a \in Actions(action_history) : a.type = "update"

\* C4: update_drawer puts exactly one action on top of the history, whatever the
\* drawer and the value; a successful undo moves the top of the history to the top
\* of the redo stack, a successful redo moves the top of the redo stack to the top
\* of the history.
C4_Lifo ==
    [][/\ last'.op = "update_drawer" =>
              /\ Len(action_history') = Len(action_history) + 1
              /\ Front(action_history') = action_history
       /\ (last'.op = "undo" /\ last'.ret = "True") =>
              /\ action_history' = Front(action_history)
              /\ redo_stack' = Append(redo_stack, Top(action_history))
       /\ (last'.op = "redo" /\ last'.ret = "True") =>
              /\ redo_stack' = Front(redo_stack)
              /\ action_history' = Append(action_history, Top(redo_stack))]_vars

\* two actions in a row on the same drawer, the second writing the value it held
C4_Witness ==
    /\ last.op = "update_drawer"
    /\ Len(action_history) >= 2
    /\ LET a == action_history[Len(action_history) - 1]
           b == Top(action_history)
       IN  /\ a.cabinet = b.cabinet /\ upper(a.id) = upper(b.id)
           /\ b.new_name = b.prev_name /\ b.new_qty = b.prev_qty

\* C5: undo() on an empty history and redo() on an empty redo stack return False
\* (they do not raise) and leave table, history and redo stack as they were.
C5_EmptyStacks ==
    [][/\ (last'.op = "undo" /\ action_history = <<>>) =>
              /\ last'.ret = "False"
              /\ UNCHANGED <<drawers, action_history, redo_stack>>
       /\ (last'.op = "redo" /\ redo_stack = <<>>) =>
              /\ last'.ret = "False"
              /\ UNCHANGED <<drawers, action_history, redo_stack>>]_vars

\* undo() has just answered False on an empty history, with something stored
C5_Witness ==
    /\ last.op = "undo"
    /\ last.ret = "False"
    /\ action_history = <<>>
    /\ redo_stack # <<>>
    /\ drawers # EmptyDict

(***************************************************************************)
(* SpecStore: writes through drawer ids whose column parts differ in case  *)
(***************************************************************************)
Bolt == <<"B", "o", "l", "t">>

StoreRequests ==
    {Request(<<"A", "1">>, Nut, 2, "Default"),
     Request(<<"a", "1">>, Bolt, 0, "Default"),
     Request(<<"A", "1", "b">>, Nut, 2, "Default"),
     Request(<<"A", "1", "B">>, Bolt, 7, "Default"),
     Request(<<"a", "1", "b">>, Bolt, 0, "Shop"),
     Request(<<"Z">>, Nut, 2, "Shop")}

NextStore ==
    \/ \E w \in StoreRequests, write_ok \in BOOLEAN :
           UpdateDrawer(w.id, w.name, w.qty, w.cabinet, TRUE, write_ok) /\ UNCHANGED obs
    \/ Undo(TRUE) /\ UNCHANGED obs
    \/ ClearInventory(TRUE) /\ UNCHANGED obs

SpecStore == Init /\ [][NextStore]_vars

\* the write of the latest update_drawer call, which returned normally
Written == Top(action_history)

StoreWriteDone ==
    /\ last.op = "update_drawer"
    /\ last.ret = "None"
    /\ Len(Written.id) >= 2
    /\ Written.new_name # <<>>
    /\ Written.new_qty >= 0

\* C6: after a successful write of (k, n, q, c) with len(k) >= 2, n non-empty and
\* q >= 0, get_drawer(k, c) is (n, q) and get_inventory(c) holds the uppercased
\* key with (n, q).
C6_RoundTrip ==
    StoreWriteDone =>
        /\ get_drawer(drawers, Written.id, Written.cabinet, TRUE) =
               [name |-> Written.new_name, qty |-> Written.new_qty]
        /\ \A inventory \in get_inventory(drawers, Written.cabinet, TRUE) :
               /\ upper(Written.id) \in DOMAIN inventory
               /\ inventory[upper(Written.id)] =
                      [name |-> Written.new_name, qty |-> Written.new_qty]

\* the half of C6 that get_drawer answers
C6_GetDrawerRoundTrip ==
    StoreWriteDone =>
        get_drawer(drawers, Written.id, Written.cabinet, TRUE) =
            [name |-> Written.new_name, qty |-> Written.new_qty]

(***************************************************************************)
(* SpecPad: pad_inventory on the inventory maps over a few keys            *)
(***************************************************************************)
PadKeys == {<<"A", "1">>, <<"D", "9">>, <<"G", "4">>, <<"E", "5">>, <<"Z", "9">>, <<"a", "1">>}

PadValues == {EmptyDrawer, [name |-> Nut, qty |-> 2]}

InventoryMaps == UNION {[K -> PadValues] : K \in SUBSET PadKeys}

InitPad ==
    /\ drawers = EmptyDict
    /\ action_history = <<>>
    /\ redo_stack = <<>>
    /\ last = Returned("init", "None")
    /\ job = NoJob
    /\ \E m \in InventoryMaps :
           padcall = [inventory |-> m, returned |-> EmptyDict, done |-> FALSE]
    /\ threads = NoThreads
    /\ obs = ObsOff

NextPad == PadInventory /\ UNCHANGED obs

SpecPad == InitPad /\ [][NextPad]_vars

\* rows A-D with columns 1-9, rows E-G with columns 1-4
CanonicalKeys ==
    {<<r, c>> : r \in {"A", "B", "C", "D"},
                c \in {"1", "2", "3", "4", "5", "6", "7", "8", "9"}}
        \cup {<<r, c>> : r \in {"E", "F", "G"}, c \in {"1", "2", "3", "4"}}

\* the result of the finished call to pad_inventory against a set of canonical keys
Padded(keys) ==
    /\ DOMAIN padcall.returned = DOMAIN padcall.inventory \cup keys
    /\ \A k \in DOMAIN padcall.inventory : padcall.returned[k] = padcall.inventory[k]
    /\ \A k \in DOMAIN padcall.returned \ DOMAIN padcall.inventory :
           padcall.returned[k] = EmptyDrawer

\* C7: pad_inventory(m) has the keys of m and the canonical keys (A-D x 1-9,
\* E-G x 1-4) and no other; a key of m, in range or not, keeps its value and an
\* added key maps to ("", 0); the canonical keys, which generate_all_drawer_keys
\* lists once each, are 48.
C7_PadComplete ==
    /\ Len(generate_all_drawer_keys) = 48
    /\ {generate_all_drawer_keys[i] : i \in 1..Len(generate_all_drawer_keys)} = CanonicalKeys
    /\ Cardinality(CanonicalKeys) = 48
    /\ padcall.done => Padded(CanonicalKeys)

\* C7 as stated: the canonical keys the padded map gains or keeps are 31
C7_ThirtyOneKeys ==
    padcall.done =>
        /\ Padded(CanonicalKeys)
        /\ Cardinality(DOMAIN padcall.returned \cap CanonicalKeys) = 31

\* a map with a canonical key, two out-of-range keys and a lower-case key is padded
C7_Witness ==
    /\ padcall.done
    /\ {<<"A", "1">>, <<"Z", "9">>, <<"E", "5">>, <<"a", "1">>} \subseteq DOMAIN padcall.inventory
    /\ padcall.inventory[<<"A", "1">>] = [name |-> Nut, qty |-> 2]
    /\ padcall.inventory[<<"Z", "9">>] = [name |-> Nut, qty |-> 2]
    /\ <<"D", "9">> \notin DOMAIN padcall.inventory
    /\ Cardinality(DOMAIN padcall.returned) = 51

(***************************************************************************)
(* SpecRead: the reading handlers between writes                           *)
(***************************************************************************)
Queries == {<<>>, <<"n", "U">>, <<"2">>}

ExportFormats == {"export_csv", "export_json", "export_txt", "export_excel"}

ReadOps == {"index", "search", "get_inventory_api", "periodic_backup"} \cup ExportFormats

ReadRequests ==
    {Request(<<"A", "1">>, Nut, 2, "Default"),
     Request(<<"a", "1">>, <<>>, 0, "Default"),
     Request(<<"Z", "9">>, Nut, 2, "Shop")}

NextRead ==
    \/ \E w \in ReadRequests :
           UpdateDrawer(w.id, w.name, w.qty, w.cabinet, TRUE, TRUE) /\ UNCHANGED obs
    \/ \E c \in Cabinets : Index(c, TRUE) /\ UNCHANGED obs
    \/ \E c \in Cabinets, q \in Queries : Search(c, q, TRUE) /\ UNCHANGED obs
    \/ \E c \in Cabinets : GetInventoryApi(c, TRUE) /\ UNCHANGED obs
    \/ \E c \in Cabinets, f \in ExportFormats : Export(f, c, TRUE) /\ UNCHANGED obs
    \/ PeriodicBackup(TRUE) /\ UNCHANGED obs

SpecRead == Init /\ [][NextRead]_vars

\* C8: a handler that reads and pads leaves the store as it was: get_inventory of
\* every cabinet and get_all_cabinets answer the same before and after, and the
\* history and the redo stack are unchanged.
C8_PaddingNotPersisted ==
    [][last'.op \in ReadOps =>
          /\ \A c \in Cabinets :
                 get_inventory(drawers', c, TRUE) = get_inventory(drawers, c, TRUE)
          /\ get_all_cabinets(drawers', TRUE) = get_all_cabinets(drawers, TRUE)
          /\ drawers' = drawers
          /\ action_history' = action_history
          /\ redo_stack' = redo_stack]_vars

\* the index view showed all canonical keys of a cabinet that stores one drawer
C8_Witness ==
    /\ last.op = "index"
    /\ CanonicalKeys \subseteq DOMAIN last.out
    /\ \E c \in Cabinets : \E inventory \in get_inventory(drawers, c, TRUE) :
           /\ Cardinality(DOMAIN inventory) = 1
           /\ \E k \in DOMAIN inventory : last.out[k] = inventory[k] /\ inventory[k].name = Nut
    /\ action_history # <<>>

(***************************************************************************)
(* SpecBatch: bulk_update and import_txt over short texts                  *)
(***************************************************************************)
\* "B3,Nut,5" / "b3,7";  "Bolt,4" / "bolt,5";  "B3,Nut,5" / " nut , 9";  " " / "A1,0";
\* "B3: Nut (5)" / "x";  "A1,Bolt,x" / "B3,0";  " ";  "B3,Nut,5" / "Bolt,4";  "A1,Bolt,0";
\* "A1,Nut,2" / "A1,Bolt,x" / "E1,Nut,3";  "A1,Nut,-5"
Texts ==
    {<<<<"B", "3", ",", "N", "u", "t", ",", "5">>, <<"b", "3", ",", "7">>>>,
     <<<<"B", "o", "l", "t", ",", "4">>, <<"b", "o", "l", "t", ",", "5">>>>,
     <<<<"B", "3", ",", "N", "u", "t", ",", "5">>, <<" ", "n", "u", "t", " ", ",", " ", "9">>>>,
     <<<<" ">>, <<"A", "1", ",", "0">>>>,
     <<<<"B", "3", ":", " ", "N", "u", "t", " ", "(", "5", ")">>, <<"x">>>>,
     <<<<"A", "1", ",", "B", "o", "l", "t", ",", "x">>, <<"B", "3", ",", "0">>>>,
     <<<<" ">>>>,
     <<<<"B", "3", ",", "N", "u", "t", ",", "5">>, <<"B", "o", "l", "t", ",", "4">>>>,
     <<<<"A", "1", ",", "B", "o", "l", "t", ",", "0">>>>,
     <<<<"A", "1", ",", "N", "u", "t", ",", "2">>, <<"A", "1", ",", "B", "o", "l", "t", ",", "x">>, <<"E", "1", ",", "N", "u", "t", ",", "3">>>>,
     <<<<"A", "1", ",", "N", "u", "t", ",", "-", "5">>>>}

\* a cabinet whose 48 canonical drawers all have a row
FullTable ==
    [k \in {<<"Default", <<key[1]>>, Tail(key)>> :
                key \in {generate_all_drawer_keys[i] : i \in 1..Len(generate_all_drawer_keys)}} |->
        EmptyDrawer]

BatchTables ==
    {EmptyDict,
     (<<"Default", <<"B">>, <<"3">>>> :> [name |-> Bolt, qty |-> 2]),
     (<<"Default", <<"A">>, <<"1">>>> :> [name |-> Nut, qty |-> 5])
         @@ (<<"Default", <<"B">>, <<"3">>>> :> [name |-> <<>>, qty |-> 0]),
     FullTable}

InitBatch ==
    /\ drawers \in BatchTables
    /\ action_history = <<>>
    /\ redo_stack = <<>>
    /\ last = Returned("init", "None")
    /\ job = NoJob
    /\ padcall = NoPadCall
    /\ threads = NoThreads
    /\ obs = ObsOff

NextBatch ==
    \/ \E text \in Texts : BulkUpdateStart("Default", text, TRUE) /\ UNCHANGED obs
    \/ BulkUpdateLine(TRUE, TRUE) /\ UNCHANGED obs
    \/ BulkUpdateEnd /\ UNCHANGED obs
    \/ \E content \in Texts : ImportTxtStart("Default", content) /\ UNCHANGED obs
    \/ ImportTxtLine(TRUE, TRUE) /\ UNCHANGED obs
    \/ ImportTxtEnd /\ UNCHANGED obs

SpecBatch == InitBatch /\ [][NextBatch]_vars

\* the line a batch handler is about to process, as a 2-field record (first, qty)
Record == strip_all(split(strip(Head(job.lines)), ","))

TwoFieldRecord ==
    /\ job.lines # <<>>
    /\ ~IsIn(Head(job.lines), ":")
    /\ Len(Record) = 2
    /\ int(Record[2]).ok

\* the keys of the inventory of the cabinet of the batch, and the drawers there whose
\* name equals the first field but for case
StoredKeys(db) == {inventory_key(k) : k \in cabinet_rows(db, job.cabinet)}

NamedLikeFirst(db) ==
    {key \in StoredKeys(db) :
        lower(get_drawer(db, key, job.cabinet, TRUE).name) = lower(Record[1])}

\* every drawer of the cabinet but the one at key is as it was
OthersKept(key) ==
    \A k \in StoredKeys(drawers) \cup StoredKeys(drawers') :
        k # key => get_drawer(drawers', k, job.cabinet, TRUE) =
                       get_drawer(drawers, k, job.cabinet, TRUE)

KeyReferenceKeepsName(kinds) ==
    ( /\ job.kind \in kinds
      /\ TwoFieldRecord
      /\ int(Record[2]).val # 0
      /\ upper(Record[1]) \in StoredKeys(drawers)
      /\ job'.lines # job.lines )
    => /\ get_drawer(drawers', upper(Record[1]), job.cabinet, TRUE) =
              [name |-> get_drawer(drawers, upper(Record[1]), job.cabinet, TRUE).name,
               qty |-> int(Record[2]).val]
       /\ OthersKept(upper(Record[1]))

\* C9: in a batch (bulk_update or import_txt), a 2-field record (first, qty) with
\* qty # 0 whose uppercased first field is a key of the inventory changes that
\* drawer's quantity only: its name after the write is the name it held just before
\* the record, also when an earlier record of the batch wrote that name.
C9_KeyReferenceKeepsName == [][KeyReferenceKeepsName({"bulk_update", "import_txt"})]_vars

\* the part of C9 that is about import_txt
C9_ImportTxtKeepsName == [][KeyReferenceKeepsName({"import_txt"})]_vars

NameReferenceReusesDrawer(kinds) ==
    ( /\ job.kind \in kinds
      /\ TwoFieldRecord
      /\ Record[1] # <<>>
      /\ upper(Record[1]) \notin StoredKeys(drawers)
      /\ NamedLikeFirst(drawers) # {}
      /\ job'.lines # job.lines )
    => /\ StoredKeys(drawers') = StoredKeys(drawers)
       /\ Len(action_history') = Len(action_history) + 1
       /\ Top(action_history').id \in NamedLikeFirst(drawers)
       /\ OthersKept(Top(action_history').id)

\* C10: a 2-field record (first, qty) whose first field is no key of the inventory but
\* equals, but for case, the name of a drawer present when the record is processed
\* (also one written by an earlier record of the batch) is applied to that drawer and
\* takes no new slot.
C10_NameReferenceReusesDrawer ==
    [][NameReferenceReusesDrawer({"bulk_update", "import_txt"})]_vars

\* the part of C10 that is about import_txt
C10_ImportTxtReusesDrawer == [][NameReferenceReusesDrawer({"import_txt"})]_vars

\* the two parts are not vacuous: import_txt has processed such records
C9_ImportTxtCase ==
    /\ job.kind = "import_txt"
    /\ last.op = "import_txt_line"
    /\ last.ret = "None"
    /\ Len(action_history) >= 2
    /\ Top(action_history).id = <<"B", "3">>
    /\ Top(action_history).new_name = Nut
    /\ Top(action_history).new_qty = 7

C10_ImportTxtCase ==
    /\ job.kind = "import_txt"
    /\ last.op = "import_txt_line"
    /\ last.ret = "None"
    /\ Len(action_history) >= 2
    /\ Top(action_history).id = <<"A", "1">>
    /\ Top(action_history).new_name = <<"b", "o", "l", "t">>
    /\ Top(action_history).new_qty = 5

Smallest(keys) == CHOOSE k \in keys : \A j \in keys \ {k} : str_lt(k, j)

FreeKeys(db) == CanonicalKeys \ StoredKeys(db)

\* the first field is taken to be no key when it is neither a key with a record nor
\* one of the canonical keys
NewNameTakesFirstFreeKey(kinds) ==
    ( /\ job.kind \in kinds
      /\ TwoFieldRecord
      /\ upper(Record[1]) \notin StoredKeys(drawers) \cup CanonicalKeys
      /\ NamedLikeFirst(drawers) = {}
      /\ job'.lines # job.lines )
    => IF FreeKeys(drawers) = {}
       THEN UNCHANGED <<drawers, action_history, redo_stack>>
       ELSE /\ get_drawer(drawers', Smallest(FreeKeys(drawers)), job.cabinet, TRUE) =
                   [name |-> Record[1], qty |-> int(Record[2]).val]
            /\ OthersKept(Smallest(FreeKeys(drawers)))
            /\ Len(action_history') = Len(action_history) + 1
            /\ Top(action_history').id = Smallest(FreeKeys(drawers))

\* C11: a 2-field record whose first field is neither a key nor a name of the
\* inventory is written to the smallest canonical key without a record at that
\* moment, so no drawer that holds a record is overwritten; when no canonical key is
\* free the record is skipped and table, history and redo stack stay as they were.
C11_NewNameTakesFirstFreeKey ==
    [][NewNameTakesFirstFreeKey({"bulk_update", "import_txt"})]_vars

\* the part of C11 that is about import_txt
C11_ImportTxtTakesFirstFreeKey == [][NewNameTakesFirstFreeKey({"import_txt"})]_vars

\* import_txt has allocated a slot, and has skipped a record on a full cabinet
C11_ImportTxtAllocated ==
    /\ job.kind = "import_txt"
    /\ last = Returned("import_txt_line", "None")
    /\ Top(action_history).id = <<"A", "1">>
    /\ Top(action_history).new_name = Bolt
    /\ <<"Default", <<"B">>, <<"3">>>> \in DOMAIN drawers

C11_ImportTxtSkipped ==
    /\ job.kind = "import_txt"
    /\ last = Returned("import_txt_line", "continue")
    /\ drawers = FullTable
    /\ job.lines = <<<<"b", "o", "l", "t", ",", "5">>>>

\* the line about to be processed is a 3-field record (location, name, qty)
ThreeFieldRecord ==
    /\ job.lines # <<>>
    /\ ~IsIn(Head(job.lines), ":")
    /\ Len(Record) = 3
    /\ int(Record[3]).ok

ZeroQuantityClears(kinds) ==
    ( /\ job.kind \in kinds
      /\ ThreeFieldRecord
      /\ int(Record[3]).val = 0
      /\ Len(Record[1]) >= 2
      /\ job'.lines # job.lines )
    => get_drawer(drawers', upper(Record[1]), job.cabinet, TRUE) = EmptyDrawer

\* C12: on both paths that take a 3-field record (bulk_update and the comma parser
\* of import_txt), a record with qty = 0 leaves the target drawer stored with name ""
\* and qty 0, whatever name the record gave.
C12_ZeroQuantityClears == [][ZeroQuantityClears({"bulk_update", "import_txt"})]_vars

\* the part of C12 that is about bulk_update
C12_BulkUpdateClears == [][ZeroQuantityClears({"bulk_update"})]_vars

\* bulk_update has processed "A1,Bolt,0" on a cabinet where A1 was (Nut, 5)
C12_BulkUpdateCase ==
    /\ last = Returned("bulk_update_line", "None")
    /\ Top(action_history).id = <<"A", "1">>
    /\ Top(action_history).prev_name = Nut
    /\ Top(action_history).new_name = <<>>
    /\ Top(action_history).new_qty = 0
    /\ job.kind = "bulk_update"
    /\ job.lines = <<>>

\* a line of bulk_update that is malformed: not 2 or 3 fields, or a quantity that is
\* no integer
Malformed(line) ==
    LET parts == strip_all(split(line, ","))
    IN  \/ Len(parts) \notin {2, 3}
        \/ ~int(parts[Len(parts)]).ok

\* C13: in bulk_update a malformed line changes neither table nor history, and the
\* loop goes on with the next line: every well-formed line before and after it is
\* applied, in input order (a 2-field line is skipped only when no key is free).
C13_MalformedLineSkipped ==
    [][(job.kind = "bulk_update" /\ job.lines # <<>> /\ job' # job) =>
          /\ job'.kind = "bulk_update"
          /\ job'.lines = Tail(job.lines)
          /\ IF Malformed(Head(job.lines))
             THEN UNCHANGED <<drawers, action_history, redo_stack>>
             ELSE \/ /\ Len(action_history') = Len(action_history) + 1
                     /\ Top(action_history').new_qty = int(Record[Len(Record)]).val
                     /\ Len(Record) = 3 => Top(action_history').id = upper(Record[1])
                     /\ get_drawer(drawers', Top(action_history').id, job.cabinet, TRUE) =
                            [name |-> Top(action_history').new_name,
                             qty |-> Top(action_history').new_qty]
                  \/ /\ Len(Record) = 2
                     /\ FreeKeys(drawers) = {}
                     /\ UNCHANGED <<drawers, action_history, redo_stack>>]_vars

\* "A1,Nut,2" / "A1,Bolt,x" / "E1,Nut,3" has been processed: two actions, the second
\* for the line after the malformed one
C13_Witness ==
    /\ job.kind = "bulk_update"
    /\ job.lines = <<>>
    /\ last = Returned("bulk_update_line", "None")
    /\ Len(action_history) = 2
    /\ action_history[1].id = <<"A", "1">>
    /\ action_history[1].new_name = Nut
    /\ action_history[2].id = <<"E", "1">>
    /\ action_history[2].new_qty = 3
    /\ get_drawer(drawers, <<"A", "1">>, "Default", TRUE) = [name |-> Nut, qty |-> 2]

(***************************************************************************)
(* SpecImport: import_csv, import_json and import_txt over short files     *)
(***************************************************************************)
CsvHeader == <<<<"I", "D">>, <<"N", "a", "m", "e">>, <<"Q", "u", "a", "n", "t", "i", "t", "y">>>>

\* rows as csv.reader gives them: header / "A1" / "B3,Bolt,2";  header / "A1,Nut,x" /
\* "B3,Bolt,2";  "A1,Nut,7" / "B3,Bolt,2" (no header);  "Name,ID,Quantity" / "Nut, a1 ,4";
\* header / "" / "E1,Nut,-5";  the empty file
CsvFiles ==
    {<<<<<<"I", "D">>, <<"N", "a", "m", "e">>, <<"Q", "u", "a", "n", "t", "i", "t", "y">>>>,
       <<<<"A", "1">>>>,
       <<<<"B", "3">>, <<"B", "o", "l", "t">>, <<"2">>>>>>,
     <<<<<<"I", "D">>, <<"N", "a", "m", "e">>, <<"Q", "u", "a", "n", "t", "i", "t", "y">>>>,
       <<<<"A", "1">>, <<"N", "u", "t">>, <<"x">>>>,
       <<<<"B", "3">>, <<"B", "o", "l", "t">>, <<"2">>>>>>,
     <<<<<<"A", "1">>, <<"N", "u", "t">>, <<"7">>>>,
       <<<<"B", "3">>, <<"B", "o", "l", "t">>, <<"2">>>>>>,
     <<<<<<"N", "a", "m", "e">>, <<"I", "D">>, <<"Q", "u", "a", "n", "t", "i", "t", "y">>>>,
       <<<<"N", "u", "t">>, <<" ", "a", "1", " ">>, <<"4">>>>>>,
     <<<<<<"I", "D">>, <<"N", "a", "m", "e">>, <<"Q", "u", "a", "n", "t", "i", "t", "y">>>>,
       <<>>,
       <<<<"E", "1">>, <<"N", "u", "t">>, <<"-", "5">>>>>>,
     <<>>}

JsonDict(name, qty) == [shape |-> "dict", name |-> name, qty |-> qty]

JsonOther == [shape |-> "other", name |-> JsonAbsent, qty |-> JsonAbsent]

JsonItem(drawer_id, details) == [id |-> drawer_id, details |-> details]

\* {"A1": 5, "B3": {"name": "Bolt", "qty": 2}};  {"A1": {"name": "Nut", "qty": "x"},
\* "B3": {"name": "Bolt", "qty": 2}};  {"a1": {"qty": 2.7}, "B3": {"name": " Nut ",
\* "qty": null}, "E1": {"name": "Nut", "qty": "3"}};  {"A1": {"name": null, "qty": 1}};
\* [1, 2];  {}
JsonFiles ==
    {[dict |-> TRUE,
      items |-> <<JsonItem(<<"A", "1">>, JsonOther),
                  JsonItem(<<"B", "3">>, JsonDict(JsonStr(Bolt), JsonInt(2)))>>],
     [dict |-> TRUE,
      items |-> <<JsonItem(<<"A", "1">>, JsonDict(JsonStr(Nut), JsonStr(<<"x">>))),
                  JsonItem(<<"B", "3">>, JsonDict(JsonStr(Bolt), JsonInt(2)))>>],
     [dict |-> TRUE,
      items |-> <<JsonItem(<<"a", "1">>, JsonDict(JsonAbsent, JsonFloat(27))),
                  JsonItem(<<"B", "3">>, JsonDict(JsonStr(<<" ", "N", "u", "t", " ">>), JsonNull)),
                  JsonItem(<<"E", "1">>, JsonDict(JsonStr(Nut), JsonStr(<<"3">>)))>>],
     [dict |-> TRUE,
      items |-> <<JsonItem(<<"A", "1">>, JsonDict(JsonNull, JsonInt(1)))>>],
     [dict |-> FALSE, items |-> <<>>],
     [dict |-> TRUE, items |-> <<>>]}

\* "A1,Nut,x" / "foo" / "B3,Bolt,2";  "B3: Nut (5)" / "A1: Bolt (x)";  " "
TxtFiles ==
    {<<<<"A", "1", ",", "N", "u", "t", ",", "x">>, <<"f", "o", "o">>,
       <<"B", "3", ",", "B", "o", "l", "t", ",", "2">>>>,
     <<<<"B", "3", ":", " ", "N", "u", "t", " ", "(", "5", ")">>,
       <<"A", "1", ":", " ", "B", "o", "l", "t", " ", "(", "x", ")">>>>,
     <<<<" ">>>>}

ImportTables ==
    {EmptyDict,
     (<<"Default", <<"A">>, <<"1">>>> :> [name |-> Nut, qty |-> 5])}

InitImport ==
    /\ drawers \in ImportTables
    /\ action_history = <<>>
    /\ redo_stack = <<>>
    /\ last = Returned("init", "None")
    /\ job = NoJob
    /\ padcall = NoPadCall
    /\ threads = NoThreads
    /\ obs = ObsOff

NextImport ==
    \/ \E rows \in CsvFiles : ImportCsvStart("Default", rows) /\ UNCHANGED obs
    \/ \E data \in JsonFiles : ImportJsonStart("Default", data) /\ UNCHANGED obs
    \/ \E kind \in {"import_csv", "import_json"} : ImportRecord(kind, TRUE, TRUE) /\ UNCHANGED obs
    \/ \E kind \in {"import_csv", "import_json"} : ImportEnd(kind) /\ UNCHANGED obs
    \/ \E content \in TxtFiles : ImportTxtStart("Default", content) /\ UNCHANGED obs
    \/ ImportTxtLine(TRUE, TRUE) /\ UNCHANGED obs
    \/ ImportTxtEnd /\ UNCHANGED obs

SpecImport == InitImport /\ [][NextImport]_vars

\* the record an import is about to process is malformed: a CSV row that has not
\* three fields or whose quantity is no integer, a JSON entry that is no dict or
\* whose name is no string or whose qty is no integer, a TXT line of neither shape
MalformedRecord ==
    /\ job.lines # <<>>
    /\ \/ /\ job.kind = "import_csv"
          /\ LET row == Head(job.lines)
                 cols == csv_columns(job.header)
             IN  /\ row # <<>>
                 /\ \/ Len(row) # 3
                    \/ ~int(row[IF cols.qty = -1 THEN 3 ELSE cols.qty + 1]).ok
       \/ /\ job.kind = "import_json"
          /\ LET details == Head(job.lines).details
             IN  \/ details.shape # "dict"
                 \/ details.name.t \notin {"str", "absent"}
                 \/ details.qty.t \in {"null", "float"}
                 \/ details.qty.t = "str" /\ ~int(details.qty.v).ok
       \/ /\ job.kind = "import_txt"
          /\ strip(Head(job.lines)) # <<>>
          /\ ~colon_shape(strip(Head(job.lines))).parsed
          /\ Malformed(strip(Head(job.lines)))

ImportKinds == {"import_csv", "import_json", "import_txt"}

MalformedRecordSkipped(kinds) ==
    /\ (job.kind \in kinds /\ MalformedRecord /\ job' # job) =>
           /\ UNCHANGED <<drawers, action_history, redo_stack>>
           /\ job'.kind = job.kind
           /\ job'.lines = Tail(job.lines)
    /\ (job.kind \in kinds /\ job' = NoJob) => last'.ret = "True"

\* C14: in every import format a malformed record is skipped without a write, the
\* other records of the file are still applied, and the import returns True.
C14_MalformedRecordSkipped == [][MalformedRecordSkipped(ImportKinds)]_vars

\* the part of C14 that is about import_txt
C14_ImportTxtSkips == [][MalformedRecordSkipped({"import_txt"})]_vars

\* import_txt has returned True on "A1,Nut,x" / "foo" / "B3,Bolt,2" with one action
C14_ImportTxtCase ==
    /\ last = Returned("import_txt", "True")
    /\ Len(action_history) = 1
    /\ Top(action_history).id = <<"B", "3">>
    /\ Top(action_history).new_name = Bolt

(***************************************************************************)
(* SpecBatchUndo: a batch, then undo() calls.  The observer keeps the      *)
(* table before the batch and after each record for which the handler's    *)
(* call of update_drawer returned: snaps[1] is the table before the batch, *)
(* snaps[i + 1] the table after the i-th such record.                      *)
(***************************************************************************)
BatchObsOff == [phase |-> "off", snaps |-> <<>>, base |-> 0, undone |-> 0]

ObserveBatch ==
    obs' = IF job' # NoJob /\ job = NoJob
           THEN [phase |-> "batch", snaps |-> <<drawers>>, base |-> Len(action_history),
                 undone |-> 0]
           ELSE IF job # NoJob /\ obs.phase = "batch"
           THEN [obs EXCEPT !.phase = IF job' = NoJob THEN "done" ELSE "batch",
                            !.snaps = IF last'.ret = "None" THEN Append(@, drawers') ELSE @]
           ELSE BatchObsOff

ObserveBatchUndo ==
    obs' = IF obs.phase \in {"done", "undoing"} /\ obs.undone < Len(obs.snaps) - 1
           THEN [obs EXCEPT !.phase = "undoing", !.undone = @ + 1]
           ELSE BatchObsOff

\* "B3,Nut,5" / "b3,7";  "A1,Bolt,x" / "Z9,Bolt,4";  "Bolt,4" / "bolt,5";
\* "A1,Nut,2" / "Z,Nut,5" (a drawer id of one character)
UndoTexts ==
    {<<<<"B", "3", ",", "N", "u", "t", ",", "5">>, <<"b", "3", ",", "7">>>>,
     <<<<"A", "1", ",", "B", "o", "l", "t", ",", "x">>, <<"Z", "9", ",", "B", "o", "l", "t", ",", "4">>>>,
     <<<<"B", "o", "l", "t", ",", "4">>, <<"b", "o", "l", "t", ",", "5">>>>,
     <<<<"A", "1", ",", "N", "u", "t", ",", "2">>, <<"Z", ",", "N", "u", "t", ",", "5">>>>}

UndoCsvFiles ==
    {<<CsvHeader, <<<<"A", "1">>>>, <<<<"B", "3">>, Bolt, <<"2">>>>>>}

UndoJsonFiles ==
    {[dict |-> TRUE,
      items |-> <<JsonItem(<<"a", "1">>, JsonDict(JsonAbsent, JsonFloat(27))),
                  JsonItem(<<"B", "3">>, JsonDict(JsonStr(Nut), JsonNull))>>]}

UndoTables ==
    {EmptyDict,
     (<<"Default", <<"A">>, <<"1">>>> :> [name |-> Nut, qty |-> 5])
         @@ (<<"Default", <<"B">>, <<"3">>>> :> [name |-> Bolt, qty |-> 2])}

InitBatchUndo ==
    /\ drawers \in UndoTables
    /\ action_history = <<>>
    /\ redo_stack = <<>>
    /\ last = Returned("init", "None")
    /\ job = NoJob
    /\ padcall = NoPadCall
    /\ threads = NoThreads
    /\ obs = BatchObsOff

\* a batch begins while nothing has been undone
NothingUndone == redo_stack = <<>>

NextBatchUndo ==
    \/ \E text \in UndoTexts :
           NothingUndone /\ BulkUpdateStart("Default", text, TRUE) /\ ObserveBatch
    \/ \E content \in UndoTexts :
           NothingUndone /\ ImportTxtStart("Default", content) /\ ObserveBatch
    \/ \E rows \in UndoCsvFiles :
           NothingUndone /\ ImportCsvStart("Default", rows) /\ ObserveBatch
    \/ \E data \in UndoJsonFiles :
           NothingUndone /\ ImportJsonStart("Default", data) /\ ObserveBatch
    \/ BulkUpdateLine(TRUE, TRUE) /\ ObserveBatch
    \/ BulkUpdateEnd /\ ObserveBatch
    \/ ImportTxtLine(TRUE, TRUE) /\ ObserveBatch
    \/ ImportTxtEnd /\ ObserveBatch
    \/ \E kind \in {"import_csv", "import_json"} : ImportRecord(kind, TRUE, TRUE) /\ ObserveBatch
    \/ \E kind \in {"import_csv", "import_json"} : ImportEnd(kind) /\ ObserveBatch
    \/ Undo(TRUE) /\ ObserveBatchUndo

SpecBatchUndo == InitBatchUndo /\ [][NextBatchUndo]_vars

\* the value of a row of the table, a row that is absent being the empty drawer
RowValue(db, k) == IF k \in DOMAIN db THEN db[k] ELSE EmptyDrawer

SameDrawers(db1, db2) ==
    \A k \in DOMAIN db1 \cup DOMAIN db2 : RowValue(db1, k) = RowValue(db2, k)

\* the i-th record applied by the batch (its call of update_drawer returned) is the
\* i-th action recorded since it began, and changed the drawer that action names, and
\* no other; a drawer id of one character is recorded and written nowhere
RecordIsAction(i) ==
    LET action == action_history[obs.base + i]
        k == <<action.cabinet, row_of(action.id), column_of(action.id)>>
    IN  IF Len(action.id) < 2
        THEN /\ action.prev_name = <<>>
             /\ action.prev_qty = 0
             /\ obs.snaps[i + 1] = obs.snaps[i]
        ELSE /\ action.prev_name = RowValue(obs.snaps[i], k).name
             /\ action.prev_qty = RowValue(obs.snaps[i], k).qty
             /\ RowValue(obs.snaps[i + 1], k) =
                    [name |-> action.new_name, qty |-> action.new_qty]
             /\ \A j \in (DOMAIN obs.snaps[i] \cup DOMAIN obs.snaps[i + 1]) \ {k} :
                    RowValue(obs.snaps[i + 1], j) = RowValue(obs.snaps[i], j)

\* C15: a batch (bulk_update or an import) that applied k records has grown the
\* history by k actions, one for each applied record in input order; the j-th undo
\* after it returns True and brings every drawer back to its value before the
\* (k - j + 1)-th record, so k undos restore the values before the batch.
C15_BatchUndoneRecordByRecord ==
    /\ obs.phase \in {"batch", "done"} =>
           /\ Len(action_history) = obs.base + Len(obs.snaps) - 1
           /\ \A i \in 1..(Len(obs.snaps) - 1) : RecordIsAction(i)
    /\ obs.phase = "undoing" =>
           /\ last = Returned("undo", "True")
           /\ Len(action_history) = obs.base + Len(obs.snaps) - 1 - obs.undone
           /\ SameDrawers(drawers, obs.snaps[Len(obs.snaps) - obs.undone])

\* a batch of two applied records on a table with two drawers has been undone whole
C15_Witness ==
    /\ obs.phase = "undoing"
    /\ Len(obs.snaps) = 3
    /\ obs.undone = 2
    /\ obs.snaps[1] # EmptyDict
    /\ ~SameDrawers(obs.snaps[2], obs.snaps[1])
    /\ ~SameDrawers(obs.snaps[3], obs.snaps[2])
    /\ drawers = obs.snaps[1]

(***************************************************************************)
(* SpecReadFail: get_inventory and get_drawer called while the storage     *)
(* read works or fails                                                     *)
(***************************************************************************)
\* a call of get_inventory(cabinet) from outside the class; the except block logs
\* and returns {}
GetInventory(cabinet, db_ok) ==
    /\ Idle
    /\ \E inventory \in get_inventory(drawers, cabinet, db_ok) :
           last' = Shown("get_inventory", inventory)
    /\ UNCHANGED <<drawers, action_history, redo_stack, job, padcall, threads>>

\* mutant: the except block of get_drawer re-raises, as the write path does
GetDrawerRaising(drawer_id, cabinet, db_ok) ==
    /\ Idle
    /\ last' = IF Len(drawer_id) >= 2 /\ ~db_ok THEN Returned("get_drawer", "raised")
               ELSE Shown("get_drawer", get_drawer(drawers, drawer_id, cabinet, db_ok))
    /\ UNCHANGED <<drawers, action_history, redo_stack, job, padcall, threads>>

\* a call of get_drawer(drawer_id, cabinet) from outside the class
GetDrawer(drawer_id, cabinet, db_ok) ==
    /\ Idle
    /\ last' = Shown("get_drawer", get_drawer(drawers, drawer_id, cabinet, db_ok))
    /\ UNCHANGED <<drawers, action_history, redo_stack, job, padcall, threads>>

\* the arguments of the read call just made, and whether the storage read worked
ObserveRead(drawer_id, cabinet, db_ok) ==
    obs' = [id |-> drawer_id, cabinet |-> cabinet, db_ok |-> db_ok]

ReadIds == DrawerIds \cup {<<>>}

NextReadFail ==
    \/ \E w \in ReadRequests :
           UpdateDrawer(w.id, w.name, w.qty, w.cabinet, TRUE, TRUE) /\ obs' = ObsOff
    \/ \E c \in Cabinets, db_ok \in BOOLEAN :
           GetInventory(c, db_ok) /\ ObserveRead(<<>>, c, db_ok)
    \/ \E id \in ReadIds, c \in Cabinets, db_ok \in BOOLEAN :
           GetDrawer(id, c, db_ok) /\ ObserveRead(id, c, db_ok)

SpecReadFail == Init /\ [][NextReadFail]_vars

\* the record get_drawer(id, cabinet) asks for is not in the table
RecordMissing(db, drawer_id, cabinet) ==
    <<cabinet, row_of(drawer_id), column_of(drawer_id)>> \notin DOMAIN db

\* C16: reads never fail the caller: when the storage read fails get_inventory
\* returns the empty map and get_drawer returns ("", 0); get_drawer also returns
\* ("", 0) for a missing record and for a drawer id shorter than 2 characters; no
\* such call raises and none changes the store, the history or the redo stack.
C16_ReadsNeverFail ==
    [][/\ last'.op = "get_inventory" =>
              /\ last'.ret # "raised"
              /\ ~obs'.db_ok => last'.out = EmptyDict
              /\ UNCHANGED <<drawers, action_history, redo_stack>>
       /\ last'.op = "get_drawer" =>
              /\ last'.ret # "raised"
              /\ (\/ ~obs'.db_ok
                  \/ Len(obs'.id) < 2
                  \/ RecordMissing(drawers, obs'.id, obs'.cabinet)) =>
                     last'.out = EmptyDrawer
              /\ UNCHANGED <<drawers, action_history, redo_stack>>]_vars

\* get_drawer has answered ("", 0) for a stored, named drawer because the read failed
C16_Witness ==
    /\ last.op = "get_drawer"
    /\ ~obs.db_ok
    /\ Len(obs.id) >= 2
    /\ ~RecordMissing(drawers, obs.id, obs.cabinet)
    /\ drawers[<<obs.cabinet, row_of(obs.id), column_of(obs.id)>>].name # <<>>
    /\ last.out = EmptyDrawer
    /\ action_history # <<>>

\* get_inventory has answered {} for a cabinet with a stored drawer because the read failed
C16_InventoryCase ==
    /\ last.op = "get_inventory"
    /\ ~obs.db_ok
    /\ cabinet_rows(drawers, obs.cabinet) # {}
    /\ last.out = EmptyDict

(***************************************************************************)
(* update_drawer and the failure of its write (SpecStore)                  *)
(***************************************************************************)
\* the table holds the values of the latest update_drawer call for its drawer
WriteTookEffect ==
    get_drawer(drawers, Written.id, Written.cabinet, TRUE) =
        [name |-> Written.new_name, qty |-> Written.new_qty]

\* C17: writes surface their failure: whenever update_drawer returns normally the
\* store holds (new_name, new_qty) for the addressed (cabinet, drawer); whenever
\* the write did not take effect update_drawer raises.
C17_WritesSurfaceFailure ==
    last.op = "update_drawer" =>
        /\ last.ret = "None" => WriteTookEffect
        /\ ~WriteTookEffect => last.ret = "raised"

\* the same for drawer ids of two characters or more
C17_LongIdWritesSurfaceFailure ==
    (last.op = "update_drawer" /\ Len(Written.id) >= 2) =>
        /\ last.ret = "None" => WriteTookEffect
        /\ ~WriteTookEffect => last.ret = "raised"

\* update_drawer has raised on a failed write of a drawer id of two characters
C17_RaisedCase ==
    /\ last.op = "update_drawer"
    /\ last.ret = "raised"
    /\ Len(Written.id) >= 2
    /\ ~WriteTookEffect

(***************************************************************************)
(* SpecUpdate: the /update handler (app.py)                                *)
(***************************************************************************)
\* update(): data is the JSON body, body = "none" when request.get_json() gives
\* nothing, "list" when it is no object (data.get then raises AttributeError, which
\* no except clause of the handler catches: status 500); ret is the status code
Update(data, write_ok) ==
    /\ Idle
    /\ Len(action_history) < MaxHist
    /\ LET qty == json_int(data.qty, -1)
           name == IF data.name.t = "absent" THEN <<>> ELSE strip(data.name.v)
           cabinet == IF data.cabinet.t = "absent" THEN "Default" ELSE data.cabinet.v
           r == update_drawer(Manager, data.id.v, name, qty.val, cabinet, TRUE, write_ok)
       IN  IF data.body = "none" THEN
               /\ last' = Returned("update", "400")
               /\ UNCHANGED <<drawers, action_history, redo_stack>>
           ELSE IF data.body = "list" THEN
               /\ last' = Returned("update", "500")
               /\ UNCHANGED <<drawers, action_history, redo_stack>>
           ELSE IF ~qty.ok \/ qty.val < 0 THEN
               /\ last' = Returned("update", "400")
               /\ UNCHANGED <<drawers, action_history, redo_stack>>
           ELSE IF data.name.t \notin {"str", "absent"} THEN
               /\ last' = Returned("update", "500")
               /\ UNCHANGED <<drawers, action_history, redo_stack>>
           ELSE IF data.id.t \in {"absent", "null"} \/ data.id.v = <<>> THEN
               /\ last' = Returned("update", "400")
               /\ UNCHANGED <<drawers, action_history, redo_stack>>
           ELSE
               /\ drawers' = r.drawers
               /\ action_history' = r.action_history
               /\ redo_stack' = r.redo_stack
               /\ last' = Returned("update", IF r.raised THEN "500" ELSE "200")
    /\ UNCHANGED <<job, padcall, threads>>

\* the body of the request just handled
ObserveUpdate(data) == obs' = [data |-> data]

\* {"id": "A1", "name": " Nut ", "qty": 2}
GoodBody ==
    [body |-> "dict", id |-> JsonStr(<<"A", "1">>),
     name |-> JsonStr(<<" ", "N", "u", "t", " ">>), qty |-> JsonInt(2),
     cabinet |-> JsonAbsent]

\* qty: 2, 0, -1, 2.7, -0.5, 3.0, "x", "3", null, absent
UpdateQtys ==
    {JsonInt(2), JsonInt(0), JsonInt(-1), JsonFloat(27), JsonFloat(-5), JsonFloat(30),
     JsonStr(<<"x">>), JsonStr(<<"3">>), JsonNull, JsonAbsent}

UpdateIds == {JsonStr(<<"A", "1">>), JsonStr(<<"B", "3">>), JsonStr(<<>>), JsonNull,
              JsonAbsent}

UpdateNames == {JsonStr(<<" ", "N", "u", "t", " ">>), JsonStr(<<>>), JsonNull, JsonAbsent}

\* the bodies sent: the good one with one field varied, in either cabinet, a body
\* with both a fractional quantity and no id, no body, and a body that is a list
UpdateBodies ==
    {[GoodBody EXCEPT !.qty = q] : q \in UpdateQtys}
        \cup {[GoodBody EXCEPT !.id = i] : i \in UpdateIds}
        \cup {[GoodBody EXCEPT !.name = n] : n \in UpdateNames}
        \cup {[GoodBody EXCEPT !.cabinet = JsonStr("Shop")],
              [GoodBody EXCEPT !.qty = JsonFloat(27), !.id = JsonAbsent],
              [GoodBody EXCEPT !.body = "none"],
              [GoodBody EXCEPT !.body = "list"]}

NextUpdate ==
    \/ \E data \in UpdateBodies, write_ok \in BOOLEAN :
           Update(data, write_ok) /\ ObserveUpdate(data)
    \/ Undo(TRUE) /\ obs' = ObsOff

SpecUpdate == Init /\ [][NextUpdate]_vars

\* a quantity that is no integer: a number with a fractional part, text that is no
\* integer literal, or null
NonIntegerQty(x) ==
    \/ x.t = "float" /\ x.v % 10 # 0
    \/ x.t = "str" /\ ~int(x.v).ok
    \/ x.t = "null"

NegativeQty(x) ==
    \/ x.t \in {"int", "float"} /\ x.v < 0
    \/ x.t = "str" /\ int(x.v).ok /\ int(x.v).val < 0

\* no body, a missing, non-integer or negative qty, or a missing drawer id
FailsValidation(data) ==
    \/ data.body = "none"
    \/ data.qty.t = "absent"
    \/ NonIntegerQty(data.qty)
    \/ NegativeQty(data.qty)
    \/ data.id.t \in {"absent", "null"}
    \/ data.id.v = <<>>

\* the request is answered with an error and nothing is changed
Rejected ==
    /\ last'.ret \in {"400", "500"}
    /\ UNCHANGED <<drawers, action_history, redo_stack>>

\* C18: a single-drawer update request that fails validation (no body, missing,
\* non-integer or negative qty, missing drawer id) is rejected with an error result
\* and leaves the store, the history and the redo stack unchanged.
C18_InvalidUpdateRejected ==
    [][(last'.op = "update" /\ FailsValidation(obs'.data)) => Rejected]_vars

\* the same for the requests whose quantity is no number with a fractional part
C18_InvalidUpdateRejectedButFractions ==
    [][(/\ last'.op = "update"
        /\ FailsValidation(obs'.data)
        /\ ~(obs'.data.qty.t = "float" /\ obs'.data.qty.v % 10 # 0)) => Rejected]_vars

\* a request without drawer id has been answered 400 with drawers stored and undone
C18_RejectedCase ==
    /\ last.op = "update"
    /\ last.ret = "400"
    /\ obs.data.id.t = "absent"
    /\ obs.data.qty = JsonInt(2)
    /\ drawers # EmptyDict
    /\ redo_stack # <<>>

(***************************************************************************)
(* The quantities stored by the batch handlers (SpecBatch)                 *)
(***************************************************************************)
\* C19: in every reachable state every persisted drawer record has qty >= 0,
\* whichever write path produced it.
C19_QtyNonNegative ==
    \A k \in DOMAIN drawers : drawers[k].qty >= 0

(***************************************************************************)
(* SpecClear: clear_inventory between writes, the storage working or not   *)
(***************************************************************************)
\* the table as it was when clear_inventory was called
ObserveClear == obs' = [before |-> drawers]

NextClear ==
    \/ \E w \in Requests :
           UpdateDrawer(w.id, w.name, w.qty, w.cabinet, TRUE, TRUE) /\ obs' = ObsOff
    \/ Undo(TRUE) /\ obs' = ObsOff
    \/ \E db_ok \in BOOLEAN : ClearInventory(db_ok) /\ ObserveClear

SpecClear == Init /\ [][NextClear]_vars

\* C20: after clear_inventory succeeds, get_inventory(c) is the empty map for
\* every cabinet c and get_all_cabinets returns the empty list, whatever was
\* stored before; the clear is not limited to one cabinet.
C20_ClearEmptiesEveryCabinet ==
    (last.op = "clear_inventory" /\ last.ret = "None") =>
        /\ \A c \in Cabinets \cup {k[1] : k \in DOMAIN obs.before} :
               get_inventory(drawers, c, TRUE) = {EmptyDict}
        /\ get_all_cabinets(drawers, TRUE) = {}

\* clear_inventory has succeeded on a table that held named drawers in both cabinets
C20_Witness ==
    /\ last.op = "clear_inventory"
    /\ last.ret = "None"
    /\ \A c \in Cabinets :
           \E k \in DOMAIN obs.before : k[1] = c /\ obs.before[k].name # <<>>
    /\ drawers = EmptyDict

(***************************************************************************)
(* The drawers a write, an undo and a redo leave alone (Spec)              *)
(***************************************************************************)
\* the table row an action is recorded for
Addressed(action) == <<action.cabinet, row_of(action.id), column_of(action.id)>>

\* every row but k is stored after the step as it was before it
OtherRowsKeep(k) ==
    \A j \in (DOMAIN drawers \cup DOMAIN drawers') \ {k} :
        /\ j \in DOMAIN drawers
        /\ j \in DOMAIN drawers'
        /\ drawers'[j] = drawers[j]

\* C21: update_drawer(k, n, q, c), and the undo or redo of an action recorded for
\* (c, k), change the stored value of drawer k in cabinet c only: every other
\* drawer of c and every drawer of every other cabinet keeps its stored value.
C21_OnlyAddressedDrawerChanges ==
    [][/\ last'.op = "update_drawer" => OtherRowsKeep(Addressed(Top(action_history')))
       /\ (last'.op = "undo" /\ last'.ret = "True") =>
              OtherRowsKeep(Addressed(Top(action_history)))
       /\ (last'.op = "redo" /\ last'.ret = "True") =>
              OtherRowsKeep(Addressed(Top(redo_stack)))]_vars

\* an action has been undone while the drawer of the same id in the other cabinet
\* is stored with a name
C21_Witness ==
    /\ last.op = "undo"
    /\ last.ret = "True"
    /\ \E k \in DOMAIN drawers :
           /\ k[1] # Top(redo_stack).cabinet
           /\ k[2] = row_of(Top(redo_stack).id)
           /\ k[3] = column_of(Top(redo_stack).id)
           /\ drawers[k].name # <<>>

(***************************************************************************)
(* SpecFail: update_drawer, undo and redo while the storage works or fails *)
(***************************************************************************)
\* the call just made: its arguments, whether its read and its write worked, and
\* how many undone actions were waiting when it began
ObserveCall(request, read_ok, write_ok) ==
    obs' = [request |-> request, read_ok |-> read_ok, write_ok |-> write_ok,
            waiting |-> Len(redo_stack)]

NoRequest == Request(<<>>, <<>>, 0, "")

\* a fresh drawer, an emptying write, a drawer of the other cabinet, and a drawer
\* id of one character
FailRequests ==
    {Request(<<"A", "1">>, Bolt, 7, "Default"),
     Request(<<"A", "1">>, <<>>, 0, "Default"),
     Request(<<"B", "3">>, Nut, 2, "Shop"),
     Request(<<"Z">>, Nut, 2, "Default")}

NextFail ==
    \/ \E w \in FailRequests, read_ok \in BOOLEAN, write_ok \in BOOLEAN :
           /\ UpdateDrawer(w.id, w.name, w.qty, w.cabinet, read_ok, write_ok)
           /\ ObserveCall(w, read_ok, write_ok)
    \/ \E write_ok \in BOOLEAN : Undo(write_ok) /\ ObserveCall(NoRequest, TRUE, write_ok)
    \/ \E write_ok \in BOOLEAN : Redo(write_ok) /\ ObserveCall(NoRequest, TRUE, write_ok)

SpecFail == Init /\ [][NextFail]_vars

\* the action update_drawer records for the call observed, from the state before it
ActionOf(request, read_ok) ==
    LET old == get_drawer(drawers, request.id, request.cabinet, read_ok)
    IN  [id |-> request.id, cabinet |-> request.cabinet,
         prev_name |-> old.name, prev_qty |-> old.qty,
         new_name |-> request.name, new_qty |-> request.qty,
         type |-> IF old.name = <<>> /\ old.qty = 0 THEN "delete" ELSE "update"]

\* the write of the call is attempted (the id has two characters) and fails
UpdateWriteFails ==
    /\ last'.op = "update_drawer"
    /\ ~obs'.write_ok
    /\ Len(obs'.request.id) >= 2

\* C22: if the store write fails inside update_drawer, the call raises to its
\* caller and the store is unchanged, but the action has already been recorded: it
\* is the top of history and the redo stack has been emptied.
C22_FailedWriteStillRecorded ==
    [][UpdateWriteFails =>
          /\ last'.ret = "raised"
          /\ drawers' = drawers
          /\ action_history' =
                 Append(action_history, ActionOf(obs'.request, obs'.read_ok))
          /\ redo_stack' = <<>>]_vars

\* update_drawer has raised on a stored table with an undone action waiting
C22_Witness ==
    /\ last.op = "update_drawer"
    /\ last.ret = "raised"
    /\ ~obs.write_ok
    /\ obs.waiting > 0
    /\ drawers # EmptyDict
    /\ Top(action_history).new_name = obs.request.name
    /\ redo_stack = <<>>

\* an undo with the storage working follows an update_drawer whose write failed
UndoAfterFailedWrite ==
    /\ last.op = "update_drawer"
    /\ last.ret = "raised"
    /\ last'.op = "undo"
    /\ obs'.write_ok

\* C23: after an update_drawer whose store write failed (action recorded, store not
\* mutated), the next undo() with storage working returns true and is a no-op on
\* drawer values: get_drawer of every drawer is the same after the undo as before.
C23_UndoAfterFailedWriteIsNoOp ==
    [][UndoAfterFailedWrite =>
          /\ last'.ret = "True"
          /\ View(drawers') = View(drawers)]_vars

\* the same when the read of the prior value had worked in the failed call
C23_NoOpWhenReadWorked ==
    [][(UndoAfterFailedWrite /\ obs.read_ok) =>
          /\ last'.ret = "True"
          /\ View(drawers') = View(drawers)]_vars

\* such an undo has been made of a failed write to a stored, named drawer
C23_ReadWorkedCase ==
    /\ last.op = "undo"
    /\ last.ret = "True"
    /\ Top(redo_stack).type = "update"
    /\ Top(redo_stack).prev_name # <<>>
    /\ get_drawer(drawers, Top(redo_stack).id, Top(redo_stack).cabinet, TRUE).name =
           Top(redo_stack).prev_name
    /\ Top(redo_stack).new_name # Top(redo_stack).prev_name

\* the replay of undo() (of redo()) is attempted and fails
UndoWriteFails ==
    /\ last'.op = "undo"
    /\ action_history # <<>>
    /\ Len(Top(action_history).id) >= 2
    /\ ~obs'.write_ok

RedoWriteFails ==
    /\ last'.op = "redo"
    /\ redo_stack # <<>>
    /\ Len(Top(redo_stack).id) >= 2
    /\ ~obs'.write_ok

\* C24: if the store write fails during undo() (respectively redo()), the call
\* returns false without raising, the store is unchanged, and the popped action is
\* afterwards in neither the history nor the redo stack: it is dropped.
C24_FailedReplayDropsAction ==
    [][/\ UndoWriteFails =>
              /\ last'.ret = "False"
              /\ drawers' = drawers
              /\ action_history' = Front(action_history)
              /\ redo_stack' = redo_stack
       /\ RedoWriteFails =>
              /\ last'.ret = "False"
              /\ drawers' = drawers
              /\ redo_stack' = Front(redo_stack)
              /\ action_history' = action_history]_vars

\* a failed redo has dropped the only undone action, the drawer it would rewrite
\* still stored
C24_Witness ==
    /\ last.op = "redo"
    /\ last.ret = "False"
    /\ ~obs.write_ok
    /\ obs.waiting = 1
    /\ redo_stack = <<>>
    /\ action_history # <<>>
    /\ drawers # EmptyDict

\* a failed undo has dropped the top of the history
C24_UndoCase ==
    /\ last.op = "undo"
    /\ last.ret = "False"
    /\ ~obs.write_ok
    /\ redo_stack # <<>>
    /\ drawers # EmptyDict

(***************************************************************************)
(* SpecBackup: the periodic_backup thread, a step at a time, beside the    *)
(* calls of the session                                                    *)
(***************************************************************************)
\* sorted(...) of get_all_cabinets, for the cabinets of the model
CabinetOrder == <<"Default", "Shop">>

sorted_cabinets(cabinets) == SelectSeq(CabinetOrder, LAMBDA c : c \in cabinets)

BackupAt(pc) == "backup" \in DOMAIN threads /\ threads["backup"].pc = pc

\* cabinets = inventory_manager.get_all_cabinets(); open(backup_file, 'w') and the
\* header row: the file holds no cabinet yet
BackupCabinets(db_ok) ==
    /\ "backup" \notin DOMAIN threads
    /\ threads' = ("backup" :> [pc |-> "for", cabinets |-> sorted_cabinets(get_all_cabinets(drawers, db_ok)),
                                inventory |-> EmptyDict, file |-> EmptyDict])
    /\ UNCHANGED <<drawers, action_history, redo_stack, last, job, padcall>>

\* inventory = inventory_manager.get_inventory(cabinet)
BackupRead(db_ok) ==
    /\ BackupAt("for")
    /\ threads["backup"].cabinets # <<>>
    /\ \E inventory \in get_inventory(drawers, Head(threads["backup"].cabinets), db_ok) :
           threads' = [threads EXCEPT !["backup"].pc = "pad",
                                      !["backup"].inventory = inventory]
    /\ UNCHANGED <<drawers, action_history, redo_stack, last, job, padcall>>

\* mutant: the padded entries are written back to the table
BackupPadPersisting ==
    /\ BackupAt("pad")
    /\ threads' = [threads EXCEPT !["backup"].pc = "write",
                                  !["backup"].inventory = pad_inventory(@)]
    /\ drawers' = [k \in DOMAIN drawers \cup
                         {<<Head(threads["backup"].cabinets), <<key[1]>>, Tail(key)>> :
                             key \in DOMAIN pad_inventory(threads["backup"].inventory)} |->
                       IF k \in DOMAIN drawers THEN drawers[k] ELSE EmptyDrawer]
    /\ UNCHANGED <<action_history, redo_stack, last, job, padcall>>

\* padded_inventory = pad_inventory(inventory)
BackupPad ==
    /\ BackupAt("pad")
    /\ threads' = [threads EXCEPT !["backup"].pc = "write",
                                  !["backup"].inventory = pad_inventory(@)]
    /\ UNCHANGED <<drawers, action_history, redo_stack, last, job, padcall>>

\* the writer.writerow loop over the padded inventory; then the next cabinet
BackupWrite ==
    /\ BackupAt("write")
    /\ threads' = [threads EXCEPT
                       !["backup"].pc = "for",
                       !["backup"].file = (Head(threads["backup"].cabinets) :>
                                               threads["backup"].inventory) @@ @,
                       !["backup"].inventory = EmptyDict,
                       !["backup"].cabinets = Tail(@)]
    /\ UNCHANGED <<drawers, action_history, redo_stack, last, job, padcall>>

\* the for loop is over: the file is closed and the thread sleeps
BackupSleep ==
    /\ BackupAt("for")
    /\ threads["backup"].cabinets = <<>>
    /\ threads' = [threads EXCEPT !["backup"].pc = "sleep"]
    /\ UNCHANGED <<drawers, action_history, redo_stack, last, job, padcall>>

\* time.sleep(interval_seconds) is over: the next round
BackupWake ==
    /\ BackupAt("sleep")
    /\ threads' = NoThreads
    /\ UNCHANGED <<drawers, action_history, redo_stack, last, job, padcall>>

\* the run without the backup: the same calls of the session made on a manager of
\* their own
Alone(r) ==
    [drawers |-> r.drawers, action_history |-> r.action_history,
     redo_stack |-> r.redo_stack]

BackupRequests ==
    {Request(<<"A", "1">>, <<>>, 0, "Default"),
     Request(<<"A", "1">>, Nut, 2, "Shop")}

BackupTables ==
    {(<<"Default", <<"A">>, <<"1">>>> :> [name |-> Nut, qty |-> 5]) @@
     (<<"Shop", <<"B">>, <<"3">>>> :> [name |-> <<>>, qty |-> 0])}

InitBackup ==
    /\ drawers \in BackupTables
    /\ action_history = <<>>
    /\ redo_stack = <<>>
    /\ last = Returned("init", "None")
    /\ job = NoJob
    /\ padcall = NoPadCall
    /\ threads = NoThreads
    /\ obs = Manager

NextBackup ==
    \/ \E w \in BackupRequests :
           /\ UpdateDrawer(w.id, w.name, w.qty, w.cabinet, TRUE, TRUE)
           /\ obs' = Alone(update_drawer(obs, w.id, w.name, w.qty, w.cabinet, TRUE, TRUE))
    \/ Undo(TRUE) /\ obs' = Alone(undo(obs, TRUE))
    \/ Redo(TRUE) /\ obs' = Alone(redo(obs, TRUE))
    \/ /\ ClearInventory(TRUE)
       /\ obs' = [obs EXCEPT !.drawers = clear_inventory(obs.drawers, TRUE).drawers]
    \/ BackupCabinets(TRUE) /\ UNCHANGED obs
    \/ BackupRead(TRUE) /\ UNCHANGED obs
    \/ BackupPad /\ UNCHANGED obs
    \/ BackupWrite /\ UNCHANGED obs
    \/ BackupSleep /\ UNCHANGED obs
    \/ BackupWake /\ UNCHANGED obs

SpecBackup == InitBackup /\ [][NextBackup]_vars

\* C25: the periodic backup only reads: under any interleaving of its steps with
\* update_drawer, undo, redo and clear_inventory calls, the store, the history and
\* the redo stack are what they are in the run of the same calls without the backup.
C25_BackupOnlyReads == Manager = obs

\* a backup has ended whose file shows A1 of 'Default' as it was before the two
\* writes made while it ran, and A1 of 'Shop' as it is after them
C25_Witness ==
    /\ BackupAt("sleep")
    /\ {"Default", "Shop"} \subseteq DOMAIN threads["backup"].file
    /\ threads["backup"].file["Default"][<<"A", "1">>] = [name |-> Nut, qty |-> 5]
    /\ threads["backup"].file["Shop"][<<"A", "1">>] = [name |-> Nut, qty |-> 2]
    /\ Len(action_history) = 2
    /\ action_history[1].cabinet = "Default"
    /\ action_history[1].prev_name = Nut
    /\ action_history[2].cabinet = "Shop"
    /\ get_drawer(drawers, <<"A", "1">>, "Default", TRUE) = EmptyDrawer

(***************************************************************************)
(* The life cycle of a recorded action (SpecFail)                          *)
(***************************************************************************)
\* the top of stack from has moved to the top of stack to: from has lost its last
\* place and nothing else, to has gained one place, holding that action
Moved(from, from_after, to, to_after) ==
    /\ from # <<>>
    /\ from_after = Front(from)
    /\ to_after = Append(to, Top(from))

\* the top of the stack is gone from it, and the other stack is as it was
Discarded(stack, stack_after, other, other_after) ==
    /\ stack_after = IF stack = <<>> THEN <<>> ELSE Front(stack)
    /\ other_after = other

\* C26: every recorded action follows the life cycle Recorded -> {Undone <->
\* Redone}: a successful undo moves exactly the top action of the history to the
\* top of the redo stack, a successful redo moves the top of the redo stack to the
\* top of the history, so that an action is never in both stacks and
\* len(history) + len(redo) is unchanged by them; a failed replay discards the
\* popped action, and recording an action discards the redo stack.
C26_ActionLifeCycle ==
    [][/\ (last'.op = "undo" /\ last'.ret = "True") =>
              /\ Moved(action_history, action_history', redo_stack, redo_stack')
              /\ Len(action_history') + Len(redo_stack') =
                     Len(action_history) + Len(redo_stack)
       /\ (last'.op = "redo" /\ last'.ret = "True") =>
              /\ Moved(redo_stack, redo_stack', action_history, action_history')
              /\ Len(action_history') + Len(redo_stack') =
                     Len(action_history) + Len(redo_stack)
       /\ (last'.op = "undo" /\ last'.ret = "False") =>
              Discarded(action_history, action_history', redo_stack, redo_stack')
       /\ (last'.op = "redo" /\ last'.ret = "False") =>
              Discarded(redo_stack, redo_stack', action_history, action_history')
       /\ last'.op = "update_drawer" =>
              /\ action_history' = Append(action_history, Top(action_history'))
              /\ redo_stack' = <<>>]_vars

\* of two undone actions one has been redone: one action in each stack
C26_Witness ==
    /\ last.op = "redo"
    /\ last.ret = "True"
    /\ Len(action_history) = 1
    /\ Len(redo_stack) = 1
    /\ obs.waiting = 2

(***************************************************************************)
(* update_drawer and undo a statement at a time, for calls that run side   *)
(* by side on the one InventoryManager (inventory_manager.py)              *)
(***************************************************************************)
NoAction == [id |-> <<>>, cabinet |-> "", prev_name |-> <<>>, prev_qty |-> 0,
             new_name |-> <<>>, new_qty |-> 0, type |-> "none"]

\* a call that has just been entered
Entered(op, pc, request) ==
    [op |-> op, pc |-> pc, request |-> request, action |-> NoAction, ret |-> "none"]

At(t, op, pc) ==
    /\ t \in DOMAIN threads
    /\ threads[t].op = op
    /\ threads[t].pc = pc

\* the update_drawer calls that have not yet appended their action
Recording ==
    {t \in DOMAIN threads : threads[t].op = "update_drawer" /\
                            threads[t].pc \in {"read", "append"}}

\* update_drawer(drawer_id, new_name, new_qty, cabinet) is entered on thread t
UpdateCall(t, w) ==
    /\ Idle
    /\ t \notin DOMAIN threads
    /\ Len(action_history) + Cardinality(Recording) < MaxHist
    /\ threads' = (t :> Entered("update_drawer", "read", w)) @@ threads
    /\ UNCHANGED <<drawers, action_history, redo_stack, last, job, padcall>>

\* old = self.get_drawer(drawer_id, cabinet), is_new and action_data
UpdateReadStep(t, read_ok) ==
    /\ At(t, "update_drawer", "read")
    /\ LET w == threads[t].request
           old == get_drawer(drawers, w.id, w.cabinet, read_ok)
           is_new == old.name = <<>> /\ old.qty = 0
       IN  threads' = [threads EXCEPT
               ![t].pc = "append",
               ![t].action = [id |-> w.id, cabinet |-> w.cabinet,
                              prev_name |-> old.name, prev_qty |-> old.qty,
                              new_name |-> w.name, new_qty |-> w.qty,
                              type |-> IF is_new THEN "delete" ELSE "update"]]
    /\ UNCHANGED <<drawers, action_history, redo_stack, last, job, padcall>>

\* _record_action: self.action_history.append(action)
UpdateAppendStep(t) ==
    /\ At(t, "update_drawer", "append")
    /\ action_history' = Append(action_history, threads[t].action)
    /\ threads' = [threads EXCEPT ![t].pc = "clear"]
    /\ UNCHANGED <<drawers, redo_stack, last, job, padcall>>

\* _record_action: self.redo_stack.clear()
UpdateClearStep(t) ==
    /\ At(t, "update_drawer", "clear")
    /\ redo_stack' = <<>>
    /\ threads' = [threads EXCEPT ![t].pc = "write"]
    /\ UNCHANGED <<drawers, action_history, last, job, padcall>>

\* mutant: the write is left out when the drawer no longer holds the value read
UpdateWriteStepIfUnchanged(t, write_ok) ==
    /\ At(t, "update_drawer", "write")
    /\ LET w == threads[t].request
           now == get_drawer(drawers, w.id, w.cabinet, TRUE)
           written == IF now.name = threads[t].action.prev_name /\
                         now.qty = threads[t].action.prev_qty
                      THEN update_drawer_in_db(drawers, w.id, w.name, w.qty, w.cabinet,
                                               write_ok)
                      ELSE [drawers |-> drawers, raised |-> FALSE]
       IN  /\ drawers' = written.drawers
           /\ threads' = [threads EXCEPT
                  ![t].pc = "done",
                  ![t].ret = IF written.raised THEN "raised" ELSE "None"]
           /\ last' = Returned("update_drawer", IF written.raised THEN "raised" ELSE "None")
    /\ UNCHANGED <<action_history, redo_stack, job, padcall>>

\* self._update_drawer_in_db(drawer_id, new_name, new_qty, cabinet), and the return
UpdateWriteStep(t, write_ok) ==
    /\ At(t, "update_drawer", "write")
    /\ LET w == threads[t].request
           written == update_drawer_in_db(drawers, w.id, w.name, w.qty, w.cabinet, write_ok)
       IN  /\ drawers' = written.drawers
           /\ threads' = [threads EXCEPT
                  ![t].pc = "done",
                  ![t].ret = IF written.raised THEN "raised" ELSE "None"]
           /\ last' = Returned("update_drawer", IF written.raised THEN "raised" ELSE "None")
    /\ UNCHANGED <<action_history, redo_stack, job, padcall>>

\* undo() is entered on thread t
UndoCall(t) ==
    /\ Idle
    /\ t \notin DOMAIN threads
    /\ threads' = (t :> Entered("undo", "pop", NoRequest)) @@ threads
    /\ UNCHANGED <<drawers, action_history, redo_stack, last, job, padcall>>

\* if not self.action_history: return False; action = self.action_history.pop()
UndoPopStep(t) ==
    /\ At(t, "undo", "pop")
    /\ IF action_history = <<>>
       THEN /\ threads' = [threads EXCEPT ![t].pc = "done", ![t].ret = "False"]
            /\ last' = Returned("undo", "False")
            /\ UNCHANGED action_history
       ELSE /\ threads' = [threads EXCEPT ![t].pc = "write",
                                          ![t].action = Top(action_history)]
            /\ action_history' = Front(action_history)
            /\ UNCHANGED last
    /\ UNCHANGED <<drawers, redo_stack, job, padcall>>

\* the _update_drawer_in_db call of undo(); a failure ends the call with False
UndoWriteStep(t, write_ok) ==
    /\ At(t, "undo", "write")
    /\ LET action == threads[t].action
           written ==
               IF action.type = "update"
               THEN update_drawer_in_db(drawers, action.id, action.prev_name,
                                        action.prev_qty, action.cabinet, write_ok)
               ELSE update_drawer_in_db(drawers, action.id, <<>>, 0, action.cabinet,
                                        write_ok)
       IN  IF written.raised
           THEN /\ threads' = [threads EXCEPT ![t].pc = "done", ![t].ret = "False"]
                /\ last' = Returned("undo", "False")
                /\ UNCHANGED drawers
           ELSE /\ threads' = [threads EXCEPT ![t].pc = "push"]
                /\ drawers' = written.drawers
                /\ UNCHANGED last
    /\ UNCHANGED <<action_history, redo_stack, job, padcall>>

\* mutant: the undone action is pushed only while no other call has recorded
UndoPushStepUnlessRecorded(t) ==
    /\ At(t, "undo", "push")
    /\ redo_stack' = IF \E u \in DOMAIN threads :
                            threads[u].op = "update_drawer" /\
                            threads[u].pc \in {"clear", "write", "done"}
                     THEN redo_stack
                     ELSE Append(redo_stack, threads[t].action)
    /\ threads' = [threads EXCEPT ![t].pc = "done", ![t].ret = "True"]
    /\ last' = Returned("undo", "True")
    /\ UNCHANGED <<drawers, action_history, job, padcall>>

\* self.redo_stack.append(action); return True
UndoPushStep(t) ==
    /\ At(t, "undo", "push")
    /\ redo_stack' = Append(redo_stack, threads[t].action)
    /\ threads' = [threads EXCEPT ![t].pc = "done", ![t].ret = "True"]
    /\ last' = Returned("undo", "True")
    /\ UNCHANGED <<drawers, action_history, job, padcall>>

\* every call entered has returned
AllDone == \A t \in DOMAIN threads : threads[t].pc = "done"

(***************************************************************************)
(* SpecRace: an undo() and an update_drawer() side by side                 *)
(***************************************************************************)
\* the statements executed since the calls were entered, in their order
Log(t, step) == obs' = Append(obs, <<t, step>>)

Place(t, step) == CHOOSE i \in 1..Len(obs) : obs[i] = <<t, step>>

Logged(t, step) == \E i \in 1..Len(obs) : obs[i] = <<t, step>>

Before(t1, step1, t2, step2) ==
    /\ Logged(t1, step1)
    /\ Logged(t2, step2)
    /\ Place(t1, step1) < Place(t2, step2)

RaceRequests ==
    {Request(<<"A", "1">>, Bolt, 7, "Default"),
     Request(<<"A", "1">>, Nut, 2, "Default"),
     Request(<<"B", "3">>, Nut, 2, "Default")}

InitRace ==
    /\ drawers \in {EmptyDict, (<<"Default", <<"A">>, <<"1">>>> :> [name |-> Nut, qty |-> 5])}
    /\ action_history = <<>>
    /\ redo_stack = <<>>
    /\ last = Returned("init", "None")
    /\ job = NoJob
    /\ padcall = NoPadCall
    /\ threads = NoThreads
    /\ obs = <<>>

NextRace ==
    \/ \E w \in RaceRequests :
           /\ threads = NoThreads
           /\ UpdateDrawer(w.id, w.name, w.qty, w.cabinet, TRUE, TRUE)
           /\ UNCHANGED obs
    \/ \E w \in RaceRequests : UpdateCall("w1", w) /\ UNCHANGED obs
    \/ UpdateReadStep("w1", TRUE) /\ Log("w1", "read")
    \/ UpdateAppendStep("w1") /\ Log("w1", "append")
    \/ UpdateClearStep("w1") /\ Log("w1", "clear")
    \/ UpdateWriteStep("w1", TRUE) /\ Log("w1", "write")
    \/ UndoCall("undo") /\ UNCHANGED obs
    \/ UndoPopStep("undo") /\ Log("undo", "pop")
    \/ UndoWriteStep("undo", TRUE) /\ Log("undo", "write")
    \/ UndoPushStep("undo") /\ Log("undo", "push")
    \/ AllDone /\ Logged("undo", "push") /\ ~Logged("session", "redo")
           /\ Redo(TRUE) /\ Log("session", "redo")

SpecRace == InitRace /\ [][NextRace]_vars

\* both calls are over; the undo popped before the update appended, and pushed
\* after the update cleared the redo stack
Raced ==
    /\ DOMAIN threads = {"undo", "w1"}
    /\ AllDone
    /\ Before("undo", "pop", "w1", "append")
    /\ Before("w1", "clear", "undo", "push")

\* C27: the history and redo stacks are not protected against interleaving: when an
\* undo() and an update_drawer() run side by side with their steps interleaved, a
\* state is reached in which the update's action is in the history while the undone
\* action sits on the redo stack, so that a later redo() returns True after a fresh
\* edit.
C27_StaleRedoAfterRace ==
    /\ (Raced /\ ~Logged("session", "redo")) =>
           /\ Top(action_history) = threads["w1"].action
           /\ redo_stack = <<threads["undo"].action>>
           /\ redo(Manager, TRUE).ret
    /\ (Raced /\ Logged("session", "redo")) =>
           /\ last.op = "redo"
           /\ last.ret = "True"
           /\ Top(action_history) = threads["undo"].action
           /\ Top(Front(action_history)) = threads["w1"].action

\* after such a race redo() has answered True: the undone action is back on top of
\* the fresh edit, written over it
C27_Witness ==
    /\ Raced
    /\ Logged("session", "redo")
    /\ last.ret = "True"
    /\ threads["w1"].action.id = threads["undo"].action.id
    /\ get_drawer(drawers, threads["w1"].action.id, "Default", TRUE).name =
           threads["undo"].action.new_name
    /\ threads["w1"].action.new_name # threads["undo"].action.new_name

(***************************************************************************)
(* SpecWriters: two update_drawer() calls on one drawer side by side       *)
(***************************************************************************)
\* the values the two calls write to drawer A1 of 'Default'
WriterRequests ==
    {Request(<<"A", "1">>, Bolt, 7, "Default"),
     Request(<<"A", "1">>, Nut, 2, "Default"),
     Request(<<"a", "1">>, <<>>, 0, "Default")}

Writers == {"w1", "w2"}

NextWriters ==
    \/ \E w \in WriterRequests :
           /\ threads = NoThreads
           /\ UpdateDrawer(w.id, w.name, w.qty, w.cabinet, TRUE, TRUE)
           /\ UNCHANGED obs
    \/ \E t \in Writers, w \in WriterRequests : UpdateCall(t, w) /\ UNCHANGED obs
    \/ \E t \in Writers : UpdateReadStep(t, TRUE) /\ Log(t, "read")
    \/ \E t \in Writers : UpdateAppendStep(t) /\ Log(t, "append")
    \/ \E t \in Writers : UpdateClearStep(t) /\ Log(t, "clear")
    \/ \E t \in Writers : UpdateWriteStep(t, TRUE) /\ Log(t, "write")

SpecWriters == InitRace /\ [][NextWriters]_vars

BothWritten == DOMAIN threads = Writers /\ AllDone

\* of the two calls, the one whose step came first and the one whose step came last
Earlier(step) == IF Before("w1", step, "w2", step) THEN "w1" ELSE "w2"

Later(step) == IF Before("w1", step, "w2", step) THEN "w2" ELSE "w1"

\* C28: when two update_drawer calls on the same (cabinet, drawer) run side by side
\* with their read, record and write steps interleaved, after both finish the
\* drawer holds exactly the value of the call whose store write committed last, and
\* the history holds both actions: no action and no write is lost or merged.
C28_LastWriteWins ==
    BothWritten =>
        /\ get_drawer(drawers, <<"A", "1">>, "Default", TRUE) =
               [name |-> threads[Later("write")].request.name,
                qty |-> threads[Later("write")].request.qty]
        /\ Len(action_history) >= 2
        /\ Top(Front(action_history)) = threads[Earlier("append")].action
        /\ Top(action_history) = threads[Later("append")].action
        /\ \A t \in Writers :
               /\ threads[t].ret = "None"
               /\ threads[t].action.new_name = threads[t].request.name
               /\ threads[t].action.new_qty = threads[t].request.qty

\* both calls read the drawer before either wrote it, and the call that appended
\* its action first wrote last
C28_Witness ==
    /\ BothWritten
    /\ Before("w1", "read", "w2", "write")
    /\ Before("w2", "read", "w1", "write")
    /\ Earlier("append") = Later("write")
    /\ threads["w1"].request.name # threads["w2"].request.name
    /\ threads["w1"].action.prev_name = Nut
    /\ threads["w2"].action.prev_name = Nut

(***************************************************************************)
(* SpecTwin: bulk_update, and import_txt given the same lines on a second  *)
(* manager that began with the same table                                  *)
(***************************************************************************)
\* the texts all of whose lines are comma-separated with 2 or 3 fields
TwinTexts ==
    {text \in Texts :
        \A i \in 1..Len(text) : Len(split(strip(text[i]), ",")) \in {2, 3}}

\* the second manager after import_txt has processed the line bulk_update is at
ObserveTwin ==
    \E call \in import_txt_line(obs.drawers, Head(job.lines), job.cabinet, TRUE) :
        obs' = IF call.do = "continue" THEN obs
               ELSE Alone(update_drawer(obs, call.id, call.name, call.qty, job.cabinet,
                                        TRUE, TRUE))

InitTwin ==
    /\ drawers \in BatchTables
    /\ action_history = <<>>
    /\ redo_stack = <<>>
    /\ last = Returned("init", "None")
    /\ job = NoJob
    /\ padcall = NoPadCall
    /\ threads = NoThreads
    /\ obs = Manager

NextTwin ==
    \/ \E text \in TwinTexts :
           /\ Len(obs.action_history) + Len(text) <= MaxBatchHist
           /\ BulkUpdateStart("Default", text, TRUE)
           /\ UNCHANGED obs
    \/ BulkUpdateLine(TRUE, TRUE) /\ ObserveTwin
    \/ BulkUpdateEnd /\ UNCHANGED obs

SpecTwin == InitTwin /\ [][NextTwin]_vars

\* C29: bulk text update and plain-text file import implement the same resolution
\* rules: started from the same store and given the same sequence of
\* comma-separated lines (3-field and 2-field), both leave the same store contents
\* and record the same sequence of actions.
C29_BulkUpdateEqualsImportTxt ==
    Idle => /\ SameDrawers(drawers, obs.drawers)
            /\ action_history = obs.action_history

(***************************************************************************)
(* SpecImportFail: the file imports while the store write works or fails   *)
(***************************************************************************)
\* whether the write of the record just processed worked
ObserveImport(write_ok) == obs' = [write_ok |-> write_ok]

NextImportFail ==
    \/ \E rows \in CsvFiles : ImportCsvStart("Default", rows) /\ UNCHANGED obs
    \/ \E data \in JsonFiles : ImportJsonStart("Default", data) /\ UNCHANGED obs
    \/ \E kind \in {"import_csv", "import_json"}, write_ok \in BOOLEAN :
           ImportRecord(kind, TRUE, write_ok) /\ ObserveImport(write_ok)
    \/ \E kind \in {"import_csv", "import_json"} : ImportEnd(kind) /\ UNCHANGED obs
    \/ \E content \in TxtFiles : ImportTxtStart("Default", content) /\ UNCHANGED obs
    \/ \E write_ok \in BOOLEAN : ImportTxtLine(TRUE, write_ok) /\ ObserveImport(write_ok)
    \/ ImportTxtEnd /\ UNCHANGED obs

SpecImportFail == InitImport /\ [][NextImportFail]_vars

\* the record at hand is passed to update_drawer, whose write is attempted and
\* fails, and records follow it in the file
RecordWriteFails ==
    /\ job.kind \in ImportKinds
    /\ Len(job.lines) > 1
    /\ ~obs'.write_ok
    /\ Len(action_history') = Len(action_history) + 1
    /\ Len(Top(action_history').id) >= 2

\* C30: in a file import (CSV, JSON, TXT), a store write failure for one record is
\* an individual row failure that is swallowed: the remaining records of the file
\* are still processed, and the records applied before it stay applied.
C30_WriteFailureSwallowed ==
    [][RecordWriteFails =>
          /\ job'.kind = job.kind
          /\ job'.lines = Tail(job.lines)
          /\ drawers' = drawers]_vars

\* the part of it about the records applied before
C30_EarlierRecordsStay ==
    [][RecordWriteFails => drawers' = drawers]_vars

\* an import has ended with False on a failed write after one record was applied
C30_AbortedCase ==
    /\ last.ret = "False"
    /\ Idle
    /\ Len(action_history) = 2
    /\ "write_ok" \in DOMAIN obs
    /\ ~obs.write_ok
    /\ get_drawer(drawers, action_history[1].id, "Default", TRUE).name =
           action_history[1].new_name
    /\ action_history[1].new_name # <<>>

(***************************************************************************)
(* SpecColon: import_txt on lines of the shape "ID: NAME (QTY)"            *)
(***************************************************************************)
\* "A1: Bolt (M3) (5)";  "B3: Nut (5)" / "A1: Bolt (x)";  "a1 : Nut:x ( 7 ) ";
\* "A1,Nut (x:y),2";  "B3: (4)"
ColonFiles ==
    {<<<<"A", "1", ":", " ", "B", "o", "l", "t", " ", "(", "M", "3", ")", " ", "(", "5", ")">>>>,
     <<<<"B", "3", ":", " ", "N", "u", "t", " ", "(", "5", ")">>,
       <<"A", "1", ":", " ", "B", "o", "l", "t", " ", "(", "x", ")">>>>,
     <<<<"a", "1", " ", ":", " ", "N", "u", "t", ":", "x", " ", "(", " ", "7", " ", ")", " ">>>>,
     <<<<"A", "1", ",", "N", "u", "t", " ", "(", "x", ":", "y", ")", ",", "2">>>>,
     <<<<"B", "3", ":", " ", "(", "4", ")">>>>}

NextColon ==
    \/ \E content \in ColonFiles : ImportTxtStart("Default", content) /\ UNCHANGED obs
    \/ ImportTxtLine(TRUE, TRUE) /\ UNCHANGED obs
    \/ ImportTxtEnd /\ UNCHANGED obs

SpecColon == InitImport /\ [][NextColon]_vars

\* the place of the last c in s at or before place n, 0 if there is none
last_at_or_before(s, c, n) ==
    IF \E i \in 1..n : s[i] = c
    THEN CHOOSE i \in 1..n : s[i] = c /\ \A k \in (i + 1)..n : s[k] # c
    ELSE 0

\* the reading of "ID: NAME (QTY)": the key before the first ':', the quantity in
\* the last '(' ... ')' pair, the name between
LastPairShape(line) ==
    LET colon == find(line, ":") + 1
        rest == SubSeq(line, colon + 1, Len(line))
        close == last_at_or_before(rest, ")", Len(rest))
        open == last_at_or_before(rest, "(", close)
        qty == int(strip(SubSeq(rest, open + 1, close - 1)))
    IN  IF colon > 0 /\ close > 0 /\ open > 0 /\ qty.ok
        THEN [parsed |-> TRUE, id |-> upper(strip(SubSeq(line, 1, colon - 1))),
              name |-> strip(SubSeq(rest, 1, open - 1)), qty |-> qty.val]
        ELSE Unparsed

\* import_txt is at a line
AtLine == job.kind = "import_txt" /\ job.lines # <<>>

Line == strip(Head(job.lines))

\* the line at hand has been applied as update_drawer(id, name, qty)
AppliedAs(shape) ==
    /\ last'.ret = "None"
    /\ action_history' # <<>>
    /\ Len(action_history') = Len(action_history) + 1
    /\ Top(action_history').id = shape.id
    /\ Top(action_history').new_name = shape.name
    /\ Top(action_history').new_qty = shape.qty

\* C31: in plain-text import, a line of shape "ID: NAME (QTY)" is parsed by taking
\* the text before the first ':' as the drawer key and the content of the last
\* '(' ... ')' pair as the quantity, with the text between as the name, so that
\* "A1: Bolt (M3) (5)" yields key A1, name "Bolt (M3)", qty 5; when the shape does
\* not match, the comma-separated 2/3-field parser is tried on the same line.
C31_LastParenthesisIsQuantity ==
    [][/\ (AtLine /\ LastPairShape(Line).parsed) => AppliedAs(LastPairShape(Line))
       /\ (AtLine /\ ~LastPairShape(Line).parsed /\
           Len(split(Line, ",")) = 3 /\ int(strip(split(Line, ",")[3])).ok) =>
              AppliedAs([id |-> upper(strip(split(Line, ",")[1])),
                         name |-> strip(split(Line, ",")[2]),
                         qty |-> int(strip(split(Line, ",")[3])).val])]_vars

\* the same for the lines with one '(' only
C31_OnlyParenthesisIsQuantity ==
    [][/\ (AtLine /\ LastPairShape(Line).parsed /\
           find(Line, "(") = rfind(Line, "(")) => AppliedAs(LastPairShape(Line))
       /\ (AtLine /\ ~LastPairShape(Line).parsed /\
           Len(split(Line, ",")) = 3 /\ int(strip(split(Line, ",")[3])).ok) =>
              AppliedAs([id |-> upper(strip(split(Line, ",")[1])),
                         name |-> strip(split(Line, ",")[2]),
                         qty |-> int(strip(split(Line, ",")[3])).val])]_vars

\* "a1 : Nut:x ( 7 ) " has been imported as A1 = ("Nut:x", 7)
C31_ColonCase ==
    /\ last.op = "import_txt_line"
    /\ last.ret = "None"
    /\ Top(action_history).id = <<"A", "1">>
    /\ Top(action_history).new_name = <<"N", "u", "t", ":", "x">>
    /\ Top(action_history).new_qty = 7

\* "A1,Nut (x:y),2" has been imported by the comma-separated parser
C31_FallbackCase ==
    /\ last.op = "import_txt_line"
    /\ last.ret = "None"
    /\ Top(action_history).new_name = <<"N", "u", "t", " ", "(", "x", ":", "y", ")">>
    /\ Top(action_history).new_qty = 2

(***************************************************************************)
(* SpecSession: one session, the storage working, no clear_inventory, and  *)
(* drawer ids of two characters or more                                    *)
(***************************************************************************)
LongRequests == {w \in Requests : Len(w.id) >= 2}

NextSession ==
    \/ \E w \in LongRequests :
           UpdateDrawer(w.id, w.name, w.qty, w.cabinet, TRUE, TRUE) /\ obs' = ObsOff
    \/ Undo(TRUE) /\ obs' = ObsOff
    \/ Redo(TRUE) /\ obs' = ObsOff

SpecSession == Init /\ [][NextSession]_vars

\* the topmost action of the stack that addresses row k
TopmostFor(stack, k) ==
    LET i == CHOOSE n \in 1..Len(stack) :
                 /\ Addressed(stack[n]) = k
                 /\ \A j \in (n + 1)..Len(stack) : Addressed(stack[j]) # k
    IN  stack[i]

\* C32: in a single session with no storage failures, no clear_inventory and drawer
\* ids of length >= 2, after every operation (update_drawer, undo, redo): for every
\* (cabinet, drawer) that has at least one action in history, the stored value of
\* that drawer equals new_name/new_qty of the topmost such action in history.
C32_StoredIsTopmostNew ==
    \A k \in {Addressed(a) : a \in Actions(action_history)} :
        /\ k \in DOMAIN drawers
        /\ drawers[k] = [name |-> TopmostFor(action_history, k).new_name,
                         qty |-> TopmostFor(action_history, k).new_qty]

\* an undo has uncovered an older action on the same drawer, with another value
C32_Witness ==
    /\ last.op = "undo"
    /\ last.ret = "True"
    /\ action_history # <<>>
    /\ redo_stack # <<>>
    /\ Addressed(Top(redo_stack)) = Addressed(Top(action_history))
    /\ Top(redo_stack).new_name # Top(action_history).new_name

(***************************************************************************)
(* SpecAfterClear: undo and redo after clear_inventory                     *)
(***************************************************************************)
\* the call before the one that just returned
ObservePrevious == obs' = [prev |-> last]

NextAfterClear ==
    \/ \E w \in FailRequests :
           UpdateDrawer(w.id, w.name, w.qty, w.cabinet, TRUE, TRUE) /\ ObservePrevious
    \/ Undo(TRUE) /\ ObservePrevious
    \/ Redo(TRUE) /\ ObservePrevious
    \/ \E db_ok \in BOOLEAN : ClearInventory(db_ok) /\ ObservePrevious

SpecAfterClear == Init /\ [][NextAfterClear]_vars

\* the store has just been emptied by clear_inventory
JustCleared == last.op = "clear_inventory" /\ last.ret = "None"

\* a table whose only row is the one the action addresses, holding name and qty;
\* the empty table for a drawer id of one character
OnlyRow(action, name, qty) ==
    IF Len(action.id) < 2 THEN EmptyDict
    ELSE (Addressed(action) :> [name |-> name, qty |-> qty])

\* C33: clear_inventory changes the store only: history and redo stack are left
\* exactly as they were, so an undo() issued after a clear still returns true and
\* writes the popped action's inverse into the emptied store (for an Update action
\* the cleared drawer reappears with prev_name/prev_qty), and a redo() after a
\* clear likewise writes new_name/new_qty.
C33_ClearKeepsHistory ==
    [][/\ last'.op = "clear_inventory" =>
              /\ action_history' = action_history
              /\ redo_stack' = redo_stack
       /\ (JustCleared /\ last'.op = "undo" /\ action_history # <<>>) =>
              /\ last'.ret = "True"
              /\ drawers = EmptyDict
              /\ drawers' = IF Top(action_history).type = "update"
                            THEN OnlyRow(Top(action_history),
                                         Top(action_history).prev_name,
                                         Top(action_history).prev_qty)
                            ELSE OnlyRow(Top(action_history), <<>>, 0)
       /\ (JustCleared /\ last'.op = "redo" /\ redo_stack # <<>>) =>
              /\ last'.ret = "True"
              /\ drawers' = OnlyRow(Top(redo_stack), Top(redo_stack).new_name,
                                    Top(redo_stack).new_qty)]_vars

\* an undo after a clear has brought back the value a drawer had before an Update
C33_Witness ==
    /\ "prev" \in DOMAIN obs
    /\ obs.prev.op = "clear_inventory"
    /\ obs.prev.ret = "None"
    /\ last.op = "undo"
    /\ last.ret = "True"
    /\ Top(redo_stack).type = "update"
    /\ drawers = OnlyRow(Top(redo_stack), Top(redo_stack).prev_name,
                         Top(redo_stack).prev_qty)
    /\ drawers # EmptyDict

\* a redo after a clear has written the new value of the action into the empty store
C33_RedoCase ==
    /\ "prev" \in DOMAIN obs
    /\ obs.prev.op = "clear_inventory"
    /\ obs.prev.ret = "None"
    /\ last.op = "redo"
    /\ last.ret = "True"
    /\ drawers = OnlyRow(Top(action_history), Top(action_history).new_name,
                         Top(action_history).new_qty)
    /\ drawers # EmptyDict

(***************************************************************************)
(* The previous value an action carries (SpecFail)                         *)
(***************************************************************************)
\* the step is an update_drawer call that recorded an action
Recorded ==
    /\ last'.op = "update_drawer"
    /\ Len(action_history') = Len(action_history) + 1

\* the action just recorded carries the value stored before the call
PrevIsStored ==
    /\ Top(action_history').prev_name =
           RowValue(drawers, Addressed(Top(action_history'))).name
    /\ Top(action_history').prev_qty =
           RowValue(drawers, Addressed(Top(action_history'))).qty

\* C34: for every action that update_drawer records, prev_name/prev_qty equal the
\* value actually stored for that drawer immediately before the call, also when the
\* prior-value read hits a storage error and the following write succeeds; so undo
\* of a recorded action never replaces a drawer that was non-empty before the
\* update with the empty value ("", 0).
C34_PrevIsStoredValue ==
    [][Recorded => PrevIsStored]_vars

\* the same for the calls whose read of the prior value worked
C34_PrevIsStoredWhenReadWorks ==
    [][(Recorded /\ obs'.read_ok) => PrevIsStored]_vars

\* a call whose read worked has recorded the non-empty value it replaced
C34_ReadWorkedCase ==
    /\ last.op = "update_drawer"
    /\ last.ret = "None"
    /\ "read_ok" \in DOMAIN obs
    /\ obs.read_ok
    /\ Top(action_history).type = "update"
    /\ Top(action_history).prev_name # <<>>

(***************************************************************************)
(* SpecSlot: the row an undone Create leaves behind, and the allocation of *)
(* slots to new names                                                      *)
(***************************************************************************)
\* "Bolt,4";  "Bolt,4" / "Cog,1"
SlotTexts ==
    {<<<<"B", "o", "l", "t", ",", "4">>>>,
     <<<<"B", "o", "l", "t", ",", "4">>, <<"C", "o", "g", ",", "1">>>>}

SlotRequests ==
    {Request(<<"A", "1">>, Nut, 2, "Default"),
     Request(<<"A", "1">>, Nut, 2, "Shop")}

SlotTables ==
    {EmptyDict,
     (<<"Default", <<"A">>, <<"2">>>> :> [name |-> Nut, qty |-> 5])}

MaxBatches == 1

\* slots: the rows that undos of Create actions have written; batches: the batches
\* begun
InitSlot ==
    /\ drawers \in SlotTables
    /\ action_history = <<>>
    /\ redo_stack = <<>>
    /\ last = Returned("init", "None")
    /\ job = NoJob
    /\ padcall = NoPadCall
    /\ threads = NoThreads
    /\ obs = [slots |-> {}, batches |-> 0]

\* the step is a successful undo of a Create action with a drawer id that names a row
UndoesCreate ==
    /\ last'.op = "undo"
    /\ last'.ret = "True"
    /\ Top(action_history).type = "delete"
    /\ Len(Top(action_history).id) >= 2

ObserveSlot ==
    obs' = IF UndoesCreate
           THEN [obs EXCEPT !.slots = @ \cup {Addressed(Top(action_history))}]
           ELSE obs

ObserveStart ==
    /\ obs.batches < MaxBatches
    /\ obs' = [obs EXCEPT !.batches = @ + 1]

NextSlot ==
    \/ \E w \in SlotRequests :
           UpdateDrawer(w.id, w.name, w.qty, w.cabinet, TRUE, TRUE) /\ UNCHANGED obs
    \/ Undo(TRUE) /\ ObserveSlot
    \/ \E text \in SlotTexts : BulkUpdateStart("Default", text, TRUE) /\ ObserveStart
    \/ BulkUpdateLine(TRUE, TRUE) /\ UNCHANGED obs
    \/ BulkUpdateEnd /\ UNCHANGED obs
    \/ \E content \in SlotTexts : ImportTxtStart("Default", content) /\ ObserveStart
    \/ ImportTxtLine(TRUE, TRUE) /\ UNCHANGED obs
    \/ ImportTxtEnd /\ UNCHANGED obs

SpecSlot == InitSlot /\ [][NextSlot]_vars

\* the step gives a slot to a record whose first field is a new name
AllocatesSlot ==
    /\ job.kind \in {"bulk_update", "import_txt"}
    /\ TwoFieldRecord
    /\ upper(Record[1]) \notin StoredKeys(drawers) \cup CanonicalKeys
    /\ NamedLikeFirst(drawers) = {}
    /\ job'.lines # job.lines
    /\ Len(action_history') = Len(action_history) + 1

\* C35: undo of a Create action does not remove the record but persists a row with
\* name "" and qty 0: afterwards get_drawer returns ("", 0) while get_inventory still
\* lists the key, and next-available-slot assignment (all canonical keys minus keys
\* present in get_inventory) treats that key as used and does not assign it to a
\* later new-name record.
C35_UndoneCreateKeepsSlot ==
    [][/\ UndoesCreate =>
              LET action == Top(action_history)
              IN  /\ Addressed(action) \in DOMAIN drawers'
                  /\ drawers'[Addressed(action)] = EmptyDrawer
                  /\ get_drawer(drawers', action.id, action.cabinet, TRUE) = EmptyDrawer
                  /\ \A inventory \in get_inventory(drawers', action.cabinet, TRUE) :
                         inventory_key(Addressed(action)) \in DOMAIN inventory
       /\ AllocatesSlot =>
              /\ Top(action_history').id = Smallest(FreeKeys(drawers))
              /\ \A k \in obs.slots :
                     /\ k \in DOMAIN drawers'
                     /\ drawers'[k] = drawers[k]
                     /\ k[1] = job.cabinet =>
                            Top(action_history').id # inventory_key(k)]_vars

\* a new name has been given slot A3 while A1, left empty by an undone Create, and
\* A2 are taken
C35_Witness ==
    /\ last.op \in {"bulk_update_line", "import_txt_line"}
    /\ last.ret = "None"
    /\ <<"Default", <<"A">>, <<"1">>>> \in obs.slots
    /\ drawers[<<"Default", <<"A">>, <<"1">>>>] = EmptyDrawer
    /\ Top(action_history).id = <<"A", "3">>
    /\ Top(action_history).new_name = Bolt

(***************************************************************************)
(* SpecPair: an undo followed at once by a redo, and a redo followed at    *)
(* once by an undo, in a session that also clears                          *)
(***************************************************************************)
\* before: the manager before the call that returned last; prev: what the call
\* before that one returned
ObservePair == obs' = [before |-> Manager, prev |-> last]

InitPair ==
    /\ drawers \in InitialTables
    /\ action_history = <<>>
    /\ redo_stack = <<>>
    /\ last = Returned("init", "None")
    /\ job = NoJob
    /\ padcall = NoPadCall
    /\ threads = NoThreads
    /\ obs = [before |-> [drawers |-> drawers, action_history |-> <<>>,
                          redo_stack |-> <<>>],
              prev |-> Returned("init", "None")]

NextPair ==
    \/ \E w \in FailRequests :
           UpdateDrawer(w.id, w.name, w.qty, w.cabinet, TRUE, TRUE) /\ ObservePair
    \/ Undo(TRUE) /\ ObservePair
    \/ Redo(TRUE) /\ ObservePair
    \/ ClearInventory(TRUE) /\ ObservePair

SpecPair == InitPair /\ [][NextPair]_vars

\* the step is a redo that follows a successful undo at once, and the converse
RedoAfterUndo == last = Returned("undo", "True") /\ last'.op = "redo"

UndoAfterRedo == last = Returned("redo", "True") /\ last'.op = "undo"

\* the value an undo of the action writes
Inverse(action) ==
    IF action.type = "update"
    THEN [name |-> action.prev_name, qty |-> action.prev_qty]
    ELSE EmptyDrawer

\* before the undo the drawer held what the action had written, and before the redo
\* what the undo of the action had written
HeldNew(m) ==
    LET action == Top(m.action_history)
    IN  Len(action.id) >= 2 =>
            /\ Addressed(action) \in DOMAIN m.drawers
            /\ m.drawers[Addressed(action)] =
                   [name |-> action.new_name, qty |-> action.new_qty]

HeldInverse(m) ==
    LET action == Top(m.redo_stack)
    IN  get_drawer(m.drawers, action.id, action.cabinet, TRUE) =
            IF Len(action.id) >= 2 THEN Inverse(action) ELSE EmptyDrawer

StoreRestored ==
    \A c \in Cabinets :
        get_inventory(drawers', c, TRUE) = get_inventory(obs.before.drawers, c, TRUE)

StacksRestored ==
    /\ action_history' = obs.before.action_history
    /\ redo_stack' = obs.before.redo_stack

\* C36: with no storage failures and no intervening operation, a successful undo()
\* immediately followed by redo() restores the store (get_inventory of every
\* cabinet), the history and the redo stack to exactly their state before the undo,
\* provided the drawer of the undone action held the action's new_name/new_qty when
\* the undo began; symmetrically a successful redo() immediately followed by undo()
\* restores every drawer's get_drawer value and both stacks, provided the drawer
\* held the value the undo of the action writes when the redo began.
C36_UndoRedoRestore ==
    [][/\ (RedoAfterUndo /\ HeldNew(obs.before)) =>
              /\ last'.ret = "True"
              /\ StoreRestored
              /\ StacksRestored
       /\ (UndoAfterRedo /\ HeldInverse(obs.before)) =>
              /\ last'.ret = "True"
              /\ View(drawers') = View(obs.before.drawers)
              /\ StacksRestored]_vars

\* C36 as stated: the proviso is that the undone action's original write had taken
\* effect (here every write of update_drawer with a drawer id of two characters or
\* more does)
C36_AsStated ==
    [][/\ (RedoAfterUndo /\ Len(Top(obs.before.action_history).id) >= 2) =>
              /\ last'.ret = "True"
              /\ StoreRestored
              /\ StacksRestored
       /\ UndoAfterRedo =>
              /\ last'.ret = "True"
              /\ View(drawers') = View(obs.before.drawers)
              /\ StacksRestored]_vars

\* a redo has followed the undo of an Update whose drawer held the new value
C36_Witness ==
    /\ last = Returned("redo", "True")
    /\ obs.prev = Returned("undo", "True")
    /\ Top(action_history).type = "update"
    /\ Len(Top(action_history).id) >= 2
    /\ Addressed(Top(action_history)) \in DOMAIN drawers
    /\ drawers[Addressed(Top(action_history))].name = Top(action_history).new_name
    /\ obs.before.drawers[Addressed(Top(action_history))].name =
           Top(action_history).prev_name

\* an undo has followed the redo of an action
C36_ConverseCase ==
    /\ last = Returned("undo", "True")
    /\ obs.prev = Returned("redo", "True")
    /\ Len(Top(redo_stack).id) >= 2
    /\ obs.before.drawers[Addressed(Top(redo_stack))].name = Top(redo_stack).new_name
    /\ drawers[Addressed(Top(redo_stack))].name = Inverse(Top(redo_stack)).name
    /\ Top(redo_stack).new_name # Inverse(Top(redo_stack)).name

(***************************************************************************)
(* Drawer ids of one character (SpecFail)                                  *)
(***************************************************************************)
\* C37: update_drawer called with a non-empty drawer id of length 1 appends an
\* action to history and empties the redo stack, but performs no store write and
\* raises no error; a later undo() of that action returns true and changes no
\* drawer.
C37_ShortIdRecordedNotWritten ==
    [][/\ (last'.op = "update_drawer" /\ Len(obs'.request.id) = 1) =>
              /\ action_history' = Append(action_history, ActionOf(obs'.request, TRUE))
              /\ Top(action_history').id = obs'.request.id
              /\ redo_stack' = <<>>
              /\ drawers' = drawers
              /\ last'.ret = "None"
       /\ (last'.op = "undo" /\ action_history # <<>> /\
           Len(Top(action_history).id) = 1) =>
              /\ last'.ret = "True"
              /\ drawers' = drawers
              /\ action_history' = Front(action_history)
              /\ redo_stack' = Append(redo_stack, Top(action_history))]_vars

\* the action of a call with a drawer id of one character has been undone with the
\* storage down, above another action and a stored drawer
C37_Witness ==
    /\ last = Returned("undo", "True")
    /\ "write_ok" \in DOMAIN obs
    /\ ~obs.write_ok
    /\ redo_stack # <<>>
    /\ Len(Top(redo_stack).id) = 1
    /\ Len(redo_stack) = 1
    /\ action_history # <<>>
    /\ drawers # EmptyDict

(***************************************************************************)
(* One history for all cabinets (Spec)                                     *)
(***************************************************************************)
\* the rows of every cabinet but c are stored after the step as before it
OtherCabinetsKeep(c) ==
    \A k \in DOMAIN drawers \cup DOMAIN drawers' :
        k[1] # c => /\ k \in DOMAIN drawers
                    /\ k \in DOMAIN drawers'
                    /\ drawers'[k] = drawers[k]

\* C38: the history is one global stack shared by all cabinets: undo() reverts the
\* most recently recorded action regardless of the cabinet it belongs to, so after
\* update_drawer in cabinet A followed by update_drawer in cabinet B, the first
\* undo() changes only cabinet B and the second undo() changes only cabinet A;
\* there is no per-cabinet undo.
C38_OneHistoryForAllCabinets ==
    [][(last'.op = "undo" /\ action_history # <<>>) =>
           /\ last'.ret = "True"
           /\ action_history' = Front(action_history)
           /\ redo_stack' = Append(redo_stack, Top(action_history))
           /\ OtherCabinetsKeep(Top(action_history).cabinet)
           /\ Len(Top(action_history).id) >= 2 =>
                  /\ Addressed(Top(action_history)) \in DOMAIN drawers'
                  /\ drawers'[Addressed(Top(action_history))] =
                         Inverse(Top(action_history))]_vars

\* two undos have reverted an update in cabinet Shop and then one in cabinet Default
C38_Witness ==
    /\ last = Returned("undo", "True")
    /\ Len(redo_stack) = 2
    /\ redo_stack[1].cabinet = "Shop"
    /\ redo_stack[2].cabinet = "Default"
    /\ Len(redo_stack[1].id) >= 2
    /\ Len(redo_stack[2].id) >= 2
    /\ redo_stack[1].new_name # Inverse(redo_stack[1]).name
    /\ redo_stack[2].new_name # Inverse(redo_stack[2]).name
    /\ drawers[Addressed(redo_stack[1])] = Inverse(redo_stack[1])
    /\ drawers[Addressed(redo_stack[2])] = Inverse(redo_stack[2])

(***************************************************************************)
(* SpecReplay: two update_drawer calls side by side, and then the session  *)
(* undoes both and redoes both                                             *)
(***************************************************************************)
\* how often the session has made the call since the two calls finished
Count(step) == Cardinality({i \in 1..Len(obs) : obs[i] = <<"session", step>>})

NextReplay ==
    \/ \E t \in Writers, w \in WriterRequests : UpdateCall(t, w) /\ UNCHANGED obs
    \/ \E t \in Writers : UpdateReadStep(t, TRUE) /\ Log(t, "read")
    \/ \E t \in Writers : UpdateAppendStep(t) /\ Log(t, "append")
    \/ \E t \in Writers : UpdateClearStep(t) /\ Log(t, "clear")
    \/ \E t \in Writers : UpdateWriteStep(t, TRUE) /\ Log(t, "write")
    \/ BothWritten /\ Count("undo") < 2 /\ Count("redo") = 0
           /\ Undo(TRUE) /\ Log("session", "undo")
    \/ BothWritten /\ Count("undo") = 2 /\ Count("redo") < 2
           /\ Redo(TRUE) /\ Log("session", "redo")

SpecReplay == InitRace /\ [][NextReplay]_vars

\* both calls read the drawer before either wrote it, and the call that recorded
\* its action first wrote last
Crossed ==
    /\ BothWritten
    /\ Before("w1", "read", "w2", "write")
    /\ Before("w2", "read", "w1", "write")
    /\ Earlier("append") = Later("write")

ValueOf(t) == [name |-> threads[t].request.name, qty |-> threads[t].request.qty]

Held == get_drawer(drawers, <<"A", "1">>, "Default", TRUE)

\* C39: when two concurrent update_drawer calls on the same drawer both read the
\* prior value before either writes, and their actions are recorded in one order
\* while their store writes commit in the opposite order, then undoing both and
\* redoing both leaves the drawer with the value of the action recorded last, which
\* differs from the value the drawer held after both calls finished (the redo half
\* of the inverse law fails under interleaving, the undo half still returns the
\* pre-state).
C39_ReplayFollowsRecordingOrder ==
    Crossed =>
        /\ Count("undo") = 0 => Held = ValueOf(Later("write"))
        /\ (Count("undo") = 2 /\ Count("redo") = 0) =>
               /\ last = Returned("undo", "True")
               /\ action_history = <<>>
               /\ \A t \in Writers :
                      Held = [name |-> threads[t].action.prev_name,
                              qty |-> threads[t].action.prev_qty]
        /\ Count("redo") = 2 =>
               /\ last = Returned("redo", "True")
               /\ redo_stack = <<>>
               /\ Top(action_history) = threads[Later("append")].action
               /\ Held = ValueOf(Later("append"))
               /\ ValueOf("w1") # ValueOf("w2") => Held # ValueOf(Later("write"))

\* both have been undone and redone, and the drawer that held ("Bolt", 7) when the
\* calls had finished holds ("Nut", 2)
C39_Witness ==
    /\ Crossed
    /\ Count("redo") = 2
    /\ ValueOf(Later("write")) = [name |-> Bolt, qty |-> 7]
    /\ Held = [name |-> Nut, qty |-> 2]
    /\ threads["w1"].action.prev_name = Nut
    /\ threads["w1"].action.prev_qty = 5

====
